---------------------------- MODULE Spec2Model ----------------------------
(***************************************************************************)
(* Victory36 prediction fan-out coordinators.                              *)
(*                                                                         *)
(*   - PredictionPipelineController (prediction-pipeline-controller/main.py)*)
(*     coordinate_predictions: cache lookup under coordination_lock, a     *)
(*     two-backend fan-out joined by asyncio.gather, the Claude 4 stage,   *)
(*     the two scores, response composition and the cache store; and the   *)
(*     /cache/clear and /status/pipeline handlers.  One request thread per *)
(*     Flask request.                                                      *)
(*   - _context_hash / _cache_key, the request fingerprint.                *)
(*   - DrClaude01Orchestrator.coordinated_prediction_request               *)
(*     (dr_claude01_orchestrator.py), a three-service fan-out.             *)
(*   - DrLucyFlightMemory.normalize_input and predict                      *)
(*     (dr_lucy_service_fixed.py).                                         *)
(*   - AntiGravityIntegrationGateway.update_metrics under concurrent       *)
(*     requests (anti_gravity_integration.py).                             *)
(*   - DrClaude01Orchestrator.start_orchestration, issue_command and the   *)
(*     command-processor thread (dr_claude01_orchestrator.py).             *)
(*   - Victory36TimePresserMonitor._check_system_health and the readers of *)
(*     system_health (victory36_time_presser_monitor.py).                  *)
(*   - CloudflareGenAIDeployment.batch_deploy and                          *)
(*     _execute_batch_deployment (cloudflare_genai_deployment_system.py).  *)
(*                                                                         *)
(* Python values are records with a field "t" naming the Python type, so   *)
(* that truthiness, dict lookups and the operations that raise TypeError / *)
(* AttributeError are computed as the interpreter computes them.           *)
(* Confidences are in tenths, scores in hundredths.                        *)
(***************************************************************************)
EXTENDS Integers, Sequences, FiniteSets, TLC

(***************************************************************************)
(* Bounds of the model.                                                    *)
(***************************************************************************)
NumThreads == 2        \* concurrent Flask request threads
MaxTime == 3           \* time.time() runs over 0..MaxTime
MaxLen == 2            \* entries of a top-level mission_context map
MaxEvents == 2         \* orchestrated requests that reach their fan-out
MaxCalls == 3          \* unified_prediction_request calls of the gateway
MaxCommands == 3       \* issue_command calls
MaxDomains == 3        \* domains of a batch job

(***************************************************************************)
(* Program constants.                                                      *)
(***************************************************************************)
cache_ttl == 2         \* CACHE_TTL, seconds (scaled)

Threads == 1..NumThreads
Admin == 0 - 1         \* the thread serving /cache/clear
Free == 0              \* coordination_lock not held

(***************************************************************************)
(* Python values.                                                          *)
(*   t        "None" | "dict" | "list"                                     *)
(*   empty    the value is falsy ({} [] "" 0 False; None is falsy too)     *)
(*   pred     the value of key 'prediction': "absent" | "dict" | "other"   *)
(*   ckind    the value of key 'confidence' (of the dict itself for a      *)
(*            Claude 4 analysis, of value['prediction'] for a backend      *)
(*            body): "absent" | "num" | "other"                            *)
(*   conf     the confidence in tenths when ckind = "num"                  *)
(***************************************************************************)
PyNone == [t |-> "None", empty |-> TRUE, pred |-> "absent", ckind |-> "absent", conf |-> 0]
EmptyDict == [t |-> "dict", empty |-> TRUE, pred |-> "absent", ckind |-> "absent", conf |-> 0]
PlainDict == [t |-> "dict", empty |-> FALSE, pred |-> "absent", ckind |-> "absent", conf |-> 0]
JsonList == [t |-> "list", empty |-> FALSE, pred |-> "absent", ckind |-> "absent", conf |-> 0]
BadPrediction == [t |-> "dict", empty |-> FALSE, pred |-> "other", ckind |-> "absent", conf |-> 0]
BadConfidence == [t |-> "dict", empty |-> FALSE, pred |-> "dict", ckind |-> "other", conf |-> 0]

Prediction(c) == [t |-> "dict", empty |-> FALSE, pred |-> "dict", ckind |-> "num", conf |-> c]

\* A Claude 4 analysis object: 'confidence' is a key of the dict itself.
Analysis(c) == [t |-> "dict", empty |-> FALSE, pred |-> "absent", ckind |-> "num", conf |-> c]
AnalysisBadConfidence == [t |-> "dict", empty |-> FALSE, pred |-> "absent", ckind |-> "other", conf |-> 0]

\* bool(v)
Truthy(v) == v.t # "None" /\ ~v.empty


(***************************************************************************)
(* mission_context maps.  A map is the sequence of its items in insertion  *)
(* order (a Python dict keeps it); an item is [key, value]; a value is a   *)
(* rendered JSON scalar (leaf) or a nested map.                            *)
(***************************************************************************)
Leaf(a) == [leaf |-> TRUE, atom |-> a, items |-> <<>>]
Nested(m) == [leaf |-> FALSE, atom |-> "", items |-> m]
Item(k, v) == [key |-> k, value |-> v]

\* Python's order on the key strings used here.
KeyRank(k) ==
  CASE k = "a" -> 1 [] k = "b" -> 2 [] k = "c" -> 3
    [] k = "x" -> 4 [] k = "y" -> 5 [] OTHER -> 6

RECURSIVE InsertByKey(_, _)
InsertByKey(it, sorted) ==
  IF sorted = <<>> THEN <<it>>
  ELSE IF KeyRank(it.key) <= KeyRank(Head(sorted).key)
       THEN <<it>> \o sorted
       ELSE <<Head(sorted)>> \o InsertByKey(it, Tail(sorted))

RECURSIVE SortedItems(_)
SortedItems(items) ==
  IF items = <<>> THEN <<>>
  ELSE InsertByKey(Head(items), SortedItems(Tail(items)))

\* sort_keys=False: the items as inserted.
KeysAsInserted(items) == items

\* json.dumps(..., sort_keys=True) orders every map's items by key.
SortKeys(items) == SortedItems(items)

\* json.dumps of a value, as the sequence of the output's tokens.
RECURSIVE JsonDumpsItems(_), JsonDumpsValue(_)
JsonDumpsValue(v) ==
  IF v.leaf THEN <<v.atom>>
  ELSE <<"{">> \o JsonDumpsItems(SortKeys(v.items)) \o <<"}">>

JsonDumpsItems(s) ==
  IF s = <<>> THEN <<>>
  ELSE <<s[1].key, ":">> \o JsonDumpsValue(s[1].value)
       \o (IF Len(s) > 1 THEN <<",">> ELSE <<>>)
       \o JsonDumpsItems(Tail(s))

JsonDumps(context) == JsonDumpsValue(Nested(context))

\* hashlib.md5(...).hexdigest(): a digest that identifies its input
\* (collisions of MD5 are outside the model).
Md5(text) == <<"md5">> \o text

\* _context_hash
ContextHash(context) == Md5(JsonDumps(context))

\* _cache_key: f"prediction:{session_id}:{context_hash}"
CacheKey(session_id, context_hash) ==
  <<"prediction", ":", session_id, ":">> \o context_hash

(***************************************************************************)
(* The maps the model draws requests from.                                 *)
(***************************************************************************)
TopKeys == {"a", "b", "c"}
NestedMaps ==
  { <<Item("x", Leaf("1")), Item("y", Leaf("2"))>>,
    <<Item("y", Leaf("2")), Item("x", Leaf("1"))>>,
    <<Item("x", Leaf("2"))>> }
Values == {Leaf("1"), Leaf("2")} \cup {Nested(m) : m \in NestedMaps}
Items == {Item(k, v) : k \in TopKeys, v \in Values}
Contexts ==
  { s \in UNION {[1..n -> Items] : n \in 0..MaxLen} :
      \A i, j \in DOMAIN s : i # j => s[i].key # s[j].key }

\* The mathematical map a context denotes, nested maps included.
KeysOf(items) == {items[i].key : i \in DOMAIN items}
ItemOf(items, k) == items[CHOOSE i \in DOMAIN items : items[i].key = k]
SameValue(v, w) ==
  /\ v.leaf = w.leaf
  /\ v.leaf => v.atom = w.atom
  /\ ~v.leaf =>
       /\ KeysOf(v.items) = KeysOf(w.items)
       /\ \A k \in KeysOf(v.items) :
            ItemOf(v.items, k).value.atom = ItemOf(w.items, k).value.atom
SameMap(c, d) ==
  /\ KeysOf(c) = KeysOf(d)
  /\ \A k \in KeysOf(c) : SameValue(ItemOf(c, k).value, ItemOf(d, k).value)


(***************************************************************************)
(* State.                                                                  *)
(***************************************************************************)
VARIABLES
  \* PredictionPipelineController
  prediction_cache,          \* dict: cache_key -> (response, cache_time)
  coordination_lock,         \* Free, a request thread, or Admin
  now,                       \* time.time()
  dr_lucy_endpoint,          \* DR_LUCY_ENDPOINT is set
  dream_commander_endpoint,  \* DREAM_COMMANDER_ENDPOINT is set
  claude4_client,            \* claude4_enabled and a client was built
  \* one coordinate_predictions call per request thread
  pc,                        \* the thread's position in coordinate_predictions
  request,                   \* its PredictionRequest
  dr_lucy_call,              \* state of the _call_dr_lucy task
  dream_commander_call,      \* state of the _call_dream_commander task
  elapsed,                   \* time the fan-out's calls have been running, as
                             \* their ClientTimeout counts it
  time_presser_result,
  time_liner_result,
  claude4_call,              \* whether _claude4_analysis was awaited / called the API
  claude4_result,
  response,                  \* the PipelineResponse the call returns
  served,                    \* which return statement produced it
  found,                     \* history: what the lookup of lines 303-305 found,
                             \* kept until the fan-out it led to has returned
  stored,                    \* history: key -> the last (response, time) stored
                             \* under it since the last clear
  \* /cache/clear
  admin_pc,
  cache_size,                \* the count clear_cache reports
  \* fingerprint of two maps
  fp_pc, fp_session, fp_context1, fp_context2, fp_hash1, fp_hash2,
  fp_key1, fp_key2,
  \* DrClaude01Orchestrator, one /orchestrate/predict request
  orch_pc,                   \* position in coordinated_prediction_request
  request_data,              \* the body the endpoint passes in
  tasks,                     \* service -> state of its _call_service task
  results,                   \* service -> what asyncio.gather holds for it
  orchestrated_response,
  coordination_events,       \* metrics['coordination_events']
  \* the two score functions applied to given results
  sc_time_presser, sc_time_liner, sc_claude4,
  sc_score_pc, sc_score,         \* _calculate_coordination_score: called? outcome
  sc_coherence_pc, sc_coherence, \* _calculate_temporal_coherence: called? outcome
  \* DrLucyFlightMemory.predict, one call
  lucy_pc,                   \* position in predict
  lucy_request_data,         \* the value predict is called with
  normalized_data,           \* what normalize_input returned (line 89)
  prediction,                \* what predict returned
  \* AntiGravityIntegrationGateway, one unified_prediction_request per
  \* request thread
  integration_metrics,       \* the gateway's shared dict
  gw_pc,                     \* the thread's position
  gw_request_data,           \* the body of its request
  gw_success,                \* the success argument of update_metrics
  gw_loaded,                 \* the value read by the += in progress
  gw_current_avg, gw_count,  \* the locals of lines 347-348
  gw_started,                \* calls begun so far
  gw_completed,              \* history: calls that have returned
  \* DrClaude01Orchestrator commands
  command_queue,             \* self.command_queue
  commands_issued,           \* metrics['commands_issued']
  active_operations,         \* self.active_operations
  cmd_pc,                    \* position of the command-processor thread
  command,                   \* the command _execute_command was passed
  issued,                    \* history: the commands in issue_command order
  executed,                  \* history: the commands passed to
                             \* _execute_command, in that order
  health_monitor_thread,     \* "initial" | "started"
  command_processor_thread,
  start_calls,               \* who has called start_orchestration
  start_raised,              \* history: whose call raised
  \* Victory36TimePresserMonitor
  monitoring_thread,         \* "initial" | "started"
  start_monitoring_calls,    \* who has called start_monitoring
  system_health,             \* self.system_health
  mon_pc,                    \* position of the monitoring thread
  overall_healthy,           \* the local of _check_system_health
  service_index,             \* the round of its for loop
  observed,                  \* what the last /system-health request serialized
  \* CloudflareGenAIDeployment, one batch job
  job,                       \* the DeploymentJob in self.deployment_jobs
  batch_size,                \* the argument of _execute_batch_deployment
  job_pc,                    \* position of the job's task
  batch_i,                   \* i of the loop of line 802
  batch_tasks                \* the domains of the tasks gather awaits

pipeline_vars ==
  <<prediction_cache, coordination_lock, now, dr_lucy_endpoint,
    dream_commander_endpoint, claude4_client, pc, request, dr_lucy_call,
    dream_commander_call, elapsed, time_presser_result, time_liner_result,
    claude4_call, claude4_result, response, served, found, stored, admin_pc,
    cache_size>>
fp_vars ==
  <<fp_pc, fp_session, fp_context1, fp_context2, fp_hash1, fp_hash2,
    fp_key1, fp_key2>>
orch_vars ==
  <<orch_pc, request_data, tasks, results, orchestrated_response,
    coordination_events>>
score_vars ==
  <<sc_time_presser, sc_time_liner, sc_claude4, sc_score_pc, sc_score,
    sc_coherence_pc, sc_coherence>>
lucy_vars == <<lucy_pc, lucy_request_data, normalized_data, prediction>>
gw_vars ==
  <<integration_metrics, gw_pc, gw_request_data, gw_success, gw_loaded,
    gw_current_avg, gw_count, gw_started, gw_completed>>
cmd_vars ==
  <<command_queue, commands_issued, active_operations, cmd_pc, command,
    issued, executed, health_monitor_thread, command_processor_thread,
    start_calls, start_raised>>
mon_vars ==
  <<monitoring_thread, start_monitoring_calls, system_health, mon_pc,
    overall_healthy, service_index, observed>>
job_vars == <<job, batch_size, job_pc, batch_i, batch_tasks>>

(***************************************************************************)
(* PredictionRequest and PipelineResponse.  The fields that never reach a  *)
(* branch or the cache key (priorities, temporal_acceleration,            *)
(* strategic_horizon, timestamp) are left out.                            *)
(***************************************************************************)
PredictionRequest(s, c, i) ==
  [session_id |-> s, mission_context |-> c, claude4_integration |-> i]
NoRequest == PredictionRequest("", <<>>, FALSE)

PipelineResponse(s, tp, tl, c4, score, coherence, status) ==
  [session_id |-> s, time_presser_prediction |-> tp,
   time_liner_prediction |-> tl, claude4_analysis |-> c4,
   coordination_score |-> score, temporal_coherence |-> coherence,
   pipeline_status |-> status]
\* the dataclass defaults
NoResponse == PipelineResponse("", PyNone, PyNone, PyNone, 0, 0, "processing")

\* max(0.0, x) that lets x through
NoLowerClamp(a, b) == b
Min(a, b) == IF a < b THEN a ELSE b
Max(a, b) == IF a > b THEN a ELSE b
Abs(a) == IF a < 0 THEN 0 - a ELSE a

\* A computation's outcome: the value, or an exception raised.
Value(v) == [raised |-> FALSE, value |-> v]
Raised == [raised |-> TRUE, value |-> 0]

\* _calculate_coordination_score, in hundredths
CoordinationScore(time_presser, time_liner, claude4) ==
  LET base == (IF Truthy(time_presser) THEN 30 ELSE 0)
              + (IF Truthy(time_liner) THEN 30 ELSE 0)
              + (IF Truthy(claude4) THEN 20 ELSE 0)
      hasConfidence == Truthy(claude4) /\ claude4.ckind # "absent"
  IN  IF hasConfidence /\ claude4.ckind = "other"
      THEN Raised                          \* claude4['confidence'] * 0.2: TypeError
      ELSE Value(Min(base + (IF hasConfidence THEN claude4.conf * 2 ELSE 0), 100))

\* x.get('prediction', {}).get('confidence', 0.5): a number in tenths, or
\* a value that is no number
Number(n) == [num |-> TRUE, n |-> n]
NotANumber == [num |-> FALSE, n |-> 0]
PredictionConfidence(x) ==
  IF x.t # "dict" \/ x.pred = "other" THEN Raised      \* AttributeError
  ELSE IF x.pred = "absent" \/ x.ckind = "absent" THEN Value(Number(5))
  ELSE IF x.ckind = "other" THEN Value(NotANumber)
  ELSE Value(Number(x.conf))

\* _calculate_temporal_coherence, in hundredths
TemporalCoherence(time_presser, time_liner) ==
  IF ~Truthy(time_presser) \/ ~Truthy(time_liner) THEN Value(50)
  ELSE LET tp == PredictionConfidence(time_presser)
           tl == PredictionConfidence(time_liner)
       IN  IF tp.raised \/ tl.raised THEN Raised
           ELSE IF ~tp.value.num \/ ~tl.value.num
                THEN Raised                \* abs(a - b) on a non-number: TypeError
                ELSE Value(Max(0, Min(100, 100 - Abs(tp.value.n - tl.value.n) * 10)))

\* line 352
PipelineStatus(time_presser, time_liner) ==
  IF Truthy(time_presser) \/ Truthy(time_liner) THEN "completed" ELSE "failed"

\* lines 334-353: the scores and the response, or the exception that
\* reaches the handler of line 364
ComposeResponse(req, time_presser, time_liner, claude4) ==
  LET score == CoordinationScore(time_presser, time_liner, claude4)
      coherence == TemporalCoherence(time_presser, time_liner)
  IN  IF score.raised \/ coherence.raised THEN Raised
      ELSE Value(PipelineResponse(req.session_id, time_presser, time_liner,
                                  claude4, score.value, coherence.value,
                                  PipelineStatus(time_presser, time_liner)))

\* a response left with the dataclass default status
DefaultResponse(req) ==
  PipelineResponse(req.session_id, PyNone, PyNone, PyNone, 0, 0, "processing")
\* lines 366-370
ErrorResponse(req) ==
  PipelineResponse(req.session_id, PyNone, PyNone, PyNone, 0, 0, "error")

\* the key of a request (lines 299-300)
KeyOf(req) == CacheKey(req.session_id, ContextHash(req.mission_context))

\* line 303
InCache(key) == key \in DOMAIN prediction_cache

\* the operands of the subtraction exchanged
UnexpiredSwapped(cache_time) == cache_time - now < cache_ttl

\* line 305
Unexpired(cache_time) == now - cache_time < cache_ttl


(***************************************************************************)
(* What the environment can answer.                                        *)
(***************************************************************************)
\* an HTTP exchange with a backend: it raises (connection error, timeout),
\* answers with a status other than 200, or answers 200 with a JSON body
Reply(h, b) == [http |-> h, body |-> b]
RepliesWith(bodies) ==
  {Reply("exception", PyNone), Reply("non200", PyNone)}
    \cup {Reply("200", b) : b \in bodies}

\* the Claude 4 exchange: the API call raises, or the text parses as JSON,
\* or it does not parse
Answer(a, v) == [api |-> a, value |-> v]
AnswersWith(values) ==
  {Answer("exception", PyNone), Answer("text", PyNone)}
    \cup {Answer("json", v) : v \in values}

\* lines 245-249: the structured text response
TextAnalysis == Analysis(8)

(***************************************************************************)
(* coordinate_predictions, one action per step of a request thread.        *)
(***************************************************************************)
thread_locals ==
  <<request, dr_lucy_call, dream_commander_call, elapsed, time_presser_result,
    time_liner_result, claude4_call, claude4_result, response, served, found>>
config_vars == <<dr_lucy_endpoint, dream_commander_endpoint, claude4_client>>
admin_vars == <<admin_pc, cache_size>>

\* /predict/coordinated builds the PredictionRequest and enters
\* coordinate_predictions (lines 293-300)
StartRequest(t, requests) ==
  /\ pc[t] = "idle"
  /\ \E req \in requests :
       request' = [request EXCEPT ![t] = req]
  /\ pc' = [pc EXCEPT ![t] = "cache_check"]
  /\ UNCHANGED <<cmd_vars, mon_vars, job_vars, prediction_cache, coordination_lock, now, config_vars,
                 dr_lucy_call, dream_commander_call, time_presser_result,
                 time_liner_result, claude4_call, claude4_result, response,
                 served, found, stored, admin_vars, elapsed, fp_vars, orch_vars, score_vars, lucy_vars, gw_vars>>

\* a with block that keeps the lock when it is left
StillHeld(holder) == holder
\* leaving a with self.coordination_lock block releases the lock (lines
\* 302-307, 356-357, 447-448, 466-468)
Released(holder) == Free

\* line 302: with self.coordination_lock
AcquireForLookup(t) ==
  /\ pc[t] = "cache_check"
  /\ coordination_lock = Free
  /\ coordination_lock' = t
  /\ pc' = [pc EXCEPT ![t] = "cache_locked"]
  /\ UNCHANGED <<cmd_vars, mon_vars, job_vars, prediction_cache, now, config_vars, thread_locals, stored,
                 admin_vars, fp_vars, orch_vars, score_vars, lucy_vars, gw_vars>>

\* a hit that only logs and falls through to the fan-out
AfterLookupFallThrough(hit) == "gather"
\* where the thread goes after the lookup: line 307 returns on a hit
AfterLookup(hit) == IF hit THEN "done" ELSE "gather"

\* line 305, on the entry found
Hit(key) ==
  InCache(key) /\ Unexpired(prediction_cache[key].cache_time)

\* lines 303-307: a live entry is returned; the with block is left either way.
\* When the call goes on, the two backend tasks are created (lines 311-316).
CacheLookup(t) ==
  /\ pc[t] = "cache_locked"
  /\ coordination_lock' = Released(t)
  /\ LET key == KeyOf(request[t])
         goes == AfterLookup(Hit(key))
     IN  /\ pc' = [pc EXCEPT ![t] = goes]
         /\ found' = [found EXCEPT ![t] =
              IF ~InCache(key) THEN "absent"
              ELSE IF Hit(key) THEN "live" ELSE "expired"]
         /\ response' = [response EXCEPT ![t] =
              IF Hit(key) THEN prediction_cache[key].response ELSE NoResponse]
         /\ served' = [served EXCEPT ![t] = IF Hit(key) THEN "cache" ELSE "none"]
         /\ dr_lucy_call' = [dr_lucy_call EXCEPT ![t] =
              IF goes = "gather" THEN "running" ELSE "none"]
         /\ dream_commander_call' = [dream_commander_call EXCEPT ![t] =
              IF goes = "gather" THEN "running" ELSE "none"]
  /\ UNCHANGED <<cmd_vars, mon_vars, job_vars, prediction_cache, now, config_vars, request,
                 time_presser_result, time_liner_result, claude4_call,
                 claude4_result, stored, admin_vars, elapsed, fp_vars, orch_vars, score_vars, lucy_vars, gw_vars>>

\* PREDICTION_TIMEOUT (line 78), in the unit of now
prediction_timeout == 1
\* MAX_CONCURRENT_PREDICTIONS (line 79), scaled to the number of request
\* threads; it sizes the ThreadPoolExecutor of line 90, to which no work is
\* ever submitted
max_concurrent == 1

\* a fan-out whose backend calls have not all returned
FanOutRunning(t) ==
  /\ pc[t] = "gather"
  /\ (dr_lucy_call[t] = "running" \/ dream_commander_call[t] = "running")

\* a session without a total timeout
NoTimeout(t) == FALSE
\* lines 121 and 154: ClientTimeout(self.prediction_timeout) is the total time
\* a call may take; when it is reached aiohttp cancels the exchange and
\* raises TimeoutError inside the call
TimerExpired(t) == elapsed[t] >= prediction_timeout
\* the TimeoutError is caught at lines 135 and 168
TimedOut(t) == IF TimerExpired(t) THEN {Reply("timeout", PyNone)} ELSE {}

\* a call that returns closes its session and with it its timer (lines 121
\* and 154, async with); elapsed is kept while the other call still runs
TimersAfter(t, other_call) ==
  IF other_call = "running" THEN elapsed ELSE [elapsed EXCEPT ![t] = 0]

\* what a backend call returns (lines 107-137 and 141-170)
CallResult(endpoint, reply) ==
  IF ~endpoint THEN PyNone
  ELSE IF reply.http = "200" THEN reply.body
  ELSE PyNone
CallState(endpoint, reply) ==
  IF ~endpoint THEN "unconfigured" ELSE reply.http

\* _call_dr_lucy runs to its return
CallDrLucy(t, replies) ==
  /\ pc[t] = "gather"
  /\ dr_lucy_call[t] = "running"
  /\ \E reply \in replies \cup TimedOut(t) :
       /\ time_presser_result' =
            [time_presser_result EXCEPT ![t] = CallResult(dr_lucy_endpoint, reply)]
       /\ dr_lucy_call' =
            [dr_lucy_call EXCEPT ![t] = CallState(dr_lucy_endpoint, reply)]
  /\ elapsed' = TimersAfter(t, dream_commander_call[t])
  /\ UNCHANGED <<cmd_vars, mon_vars, job_vars, prediction_cache, coordination_lock, now, config_vars, pc,
                 request, dream_commander_call, time_liner_result,
                 claude4_call, claude4_result, response, served, found,
                 stored, admin_vars, fp_vars, orch_vars, score_vars, lucy_vars, gw_vars>>

\* _call_dream_commander runs to its return
CallDreamCommander(t, replies) ==
  /\ pc[t] = "gather"
  /\ dream_commander_call[t] = "running"
  /\ \E reply \in replies \cup TimedOut(t) :
       /\ time_liner_result' =
            [time_liner_result EXCEPT ![t] = CallResult(dream_commander_endpoint, reply)]
       /\ dream_commander_call' =
            [dream_commander_call EXCEPT ![t] = CallState(dream_commander_endpoint, reply)]
  /\ elapsed' = TimersAfter(t, dr_lucy_call[t])
  /\ UNCHANGED <<cmd_vars, mon_vars, job_vars, prediction_cache, coordination_lock, now, config_vars, pc,
                 request, dr_lucy_call, time_presser_result, claude4_call,
                 claude4_result, response, served, found, stored, admin_vars,
                 fp_vars, orch_vars, score_vars, lucy_vars, gw_vars>>

\* line 316: asyncio.gather returns when both tasks have returned (neither
\* task can raise, so lines 319-325 leave the results as they are)
GatherJoin(t) ==
  /\ pc[t] = "gather"
  /\ dr_lucy_call[t] # "running"
  /\ dream_commander_call[t] # "running"
  /\ pc' = [pc EXCEPT ![t] = "secondary"]
  /\ found' = [found EXCEPT ![t] = "none"]
  /\ UNCHANGED <<cmd_vars, mon_vars, job_vars, prediction_cache, coordination_lock, now, config_vars,
                 request, elapsed, dr_lucy_call, dream_commander_call,
                 time_presser_result, time_liner_result, claude4_call,
                 claude4_result, response, served, stored, admin_vars,
                 fp_vars, orch_vars, score_vars, lucy_vars, gw_vars>>

\* what _claude4_analysis returns (lines 176-253)
AnalysisResult(client, answer) ==
  IF ~client THEN PyNone
  ELSE IF answer.api = "exception" THEN PyNone
  ELSE IF answer.api = "text" THEN TextAnalysis
  ELSE answer.value

\* lines 328-332
Claude4Analysis(t, answers) ==
  /\ pc[t] = "secondary"
  /\ IF request[t].claude4_integration
     THEN /\ \E answer \in answers :
               claude4_result' =
                 [claude4_result EXCEPT ![t] = AnalysisResult(claude4_client, answer)]
          /\ claude4_call' =
               [claude4_call EXCEPT ![t] = IF claude4_client THEN "api" ELSE "awaited"]
     ELSE /\ claude4_result' = [claude4_result EXCEPT ![t] = PyNone]
          /\ claude4_call' = [claude4_call EXCEPT ![t] = "skipped"]
  /\ pc' = [pc EXCEPT ![t] = "aggregate"]
  /\ UNCHANGED <<cmd_vars, mon_vars, job_vars, prediction_cache, coordination_lock, now, config_vars,
                 request, dr_lucy_call, dream_commander_call,
                 time_presser_result, time_liner_result, response, served,
                 found, stored, admin_vars, elapsed, fp_vars, orch_vars, score_vars, lucy_vars, gw_vars>>

\* a handler that lets the call go on to the store
AlwaysStore(raised) == "store"
\* a composed response goes on to the store of lines 355-357; the handler
\* of lines 364-370 returns at once
AfterCompose(raised) == IF raised THEN "done" ELSE "store"

\* lines 334-353, and lines 364-370 when a score raises
Aggregate(t) ==
  /\ pc[t] = "aggregate"
  /\ LET composed == ComposeResponse(request[t], time_presser_result[t],
                                     time_liner_result[t], claude4_result[t])
     IN  IF composed.raised
         THEN /\ response' = [response EXCEPT ![t] = ErrorResponse(request[t])]
              /\ served' = [served EXCEPT ![t] = "except"]
              /\ pc' = [pc EXCEPT ![t] = AfterCompose(TRUE)]
         ELSE /\ response' = [response EXCEPT ![t] = composed.value]
              /\ served' = served
              /\ pc' = [pc EXCEPT ![t] = AfterCompose(FALSE)]
  /\ UNCHANGED <<cmd_vars, mon_vars, job_vars, prediction_cache, coordination_lock, now, config_vars,
                 request, dr_lucy_call, dream_commander_call,
                 time_presser_result, time_liner_result, claude4_call,
                 claude4_result, found, stored, admin_vars, elapsed, fp_vars, orch_vars, score_vars, lucy_vars, gw_vars>>

\* line 356: with self.coordination_lock
AcquireForStore(t) ==
  /\ pc[t] = "store"
  /\ coordination_lock = Free
  /\ coordination_lock' = t
  /\ pc' = [pc EXCEPT ![t] = "store_locked"]
  /\ UNCHANGED <<cmd_vars, mon_vars, job_vars, prediction_cache, now, config_vars, thread_locals, stored,
                 admin_vars, fp_vars, orch_vars, score_vars, lucy_vars, gw_vars>>

\* an existing entry keeps its time when its response is replaced
CacheWithKeptTime(cache, key, resp, time) ==
  [k \in DOMAIN cache \cup {key} |->
     IF k = key
     THEN [response |-> resp,
           cache_time |-> IF key \in DOMAIN cache THEN cache[key].cache_time ELSE time]
     ELSE cache[k]]

\* the cache with key bound to (response, time.time())
CacheWith(cache, key, resp, time) ==
  [k \in DOMAIN cache \cup {key} |->
     IF k = key THEN [response |-> resp, cache_time |-> time] ELSE cache[k]]

\* lines 357-362
CacheStore(t) ==
  /\ pc[t] = "store_locked"
  /\ prediction_cache' =
       CacheWith(prediction_cache, KeyOf(request[t]), response[t], now)
  /\ stored' =
       [k \in DOMAIN stored \cup {KeyOf(request[t])} |->
          IF k = KeyOf(request[t])
          THEN [response |-> response[t], cache_time |-> now] ELSE stored[k]]
  /\ coordination_lock' = Released(t)
  /\ served' = [served EXCEPT ![t] = "computed"]
  /\ pc' = [pc EXCEPT ![t] = "done"]
  /\ UNCHANGED <<cmd_vars, mon_vars, job_vars, now, config_vars, request, dr_lucy_call,
                 dream_commander_call, time_presser_result,
                 time_liner_result, claude4_call, claude4_result, response,
                 found, admin_vars, elapsed, fp_vars, orch_vars, score_vars, lucy_vars, gw_vars>>

\* the response goes out (line 436) and the thread serves the next request
FinishRequest(t) ==
  /\ pc[t] = "done"
  /\ pc' = [pc EXCEPT ![t] = "idle"]
  /\ request' = [request EXCEPT ![t] = NoRequest]
  /\ dr_lucy_call' = [dr_lucy_call EXCEPT ![t] = "none"]
  /\ dream_commander_call' = [dream_commander_call EXCEPT ![t] = "none"]
  /\ time_presser_result' = [time_presser_result EXCEPT ![t] = PyNone]
  /\ time_liner_result' = [time_liner_result EXCEPT ![t] = PyNone]
  /\ claude4_call' = [claude4_call EXCEPT ![t] = "none"]
  /\ claude4_result' = [claude4_result EXCEPT ![t] = PyNone]
  /\ response' = [response EXCEPT ![t] = NoResponse]
  /\ served' = [served EXCEPT ![t] = "none"]
  /\ found' = [found EXCEPT ![t] = "none"]
  /\ UNCHANGED <<cmd_vars, mon_vars, job_vars, prediction_cache, coordination_lock, now, config_vars,
                 stored, admin_vars, elapsed, fp_vars, orch_vars, score_vars, lucy_vars, gw_vars>>

\* time.time() advances, and with it the timers of the calls in flight; a
\* call whose timer has expired ends before more time passes.  With slow
\* backends time passes while calls are in flight; otherwise the backends
\* answer or fail at once.
Tick(slow_backends) ==
  /\ now < MaxTime
  /\ \A t \in Threads :
       FanOutRunning(t) => (slow_backends /\ ~TimerExpired(t))
  /\ now' = now + 1
  /\ elapsed' = [t \in Threads |->
                   IF FanOutRunning(t) THEN elapsed[t] + 1 ELSE elapsed[t]]
  /\ UNCHANGED <<cmd_vars, mon_vars, job_vars, prediction_cache, coordination_lock, config_vars, pc,
                 request, dr_lucy_call, dream_commander_call,
                 time_presser_result, time_liner_result, claude4_call,
                 claude4_result, response, served, found, stored, admin_vars,
                 fp_vars, orch_vars, score_vars, lucy_vars, gw_vars>>

(***************************************************************************)
(* /cache/clear (lines 463-473)                                            *)
(***************************************************************************)
EmptyCache == [k \in {} |-> [response |-> NoResponse, cache_time |-> 0]]

AcquireForClear ==
  /\ admin_pc = "idle"
  /\ coordination_lock = Free
  /\ coordination_lock' = Admin
  /\ admin_pc' = "clear_locked"
  /\ UNCHANGED <<cmd_vars, mon_vars, job_vars, prediction_cache, now, config_vars, pc, thread_locals,
                 stored, cache_size, fp_vars, orch_vars, score_vars, lucy_vars, gw_vars>>

\* a clear that removes nothing
ClearedNothing(cache) == cache
\* line 468: prediction_cache.clear()
Cleared(cache) == EmptyCache

\* lines 466-468, under the lock: the size is read, then the cache cleared
ClearCache ==
  /\ admin_pc = "clear_locked"
  /\ cache_size' = Cardinality(DOMAIN prediction_cache)
  /\ prediction_cache' = Cleared(prediction_cache)
  /\ stored' = EmptyCache
  /\ coordination_lock' = Released(Admin)
  /\ admin_pc' = "idle"
  /\ UNCHANGED <<cmd_vars, mon_vars, job_vars, now, config_vars, pc, thread_locals, fp_vars, orch_vars, score_vars, lucy_vars, gw_vars>>

(***************************************************************************)
(* /status/pipeline (lines 444-461)                                        *)
(***************************************************************************)
AcquireForStatus ==
  /\ admin_pc = "idle"
  /\ coordination_lock = Free
  /\ coordination_lock' = Admin
  /\ admin_pc' = "status_locked"
  /\ UNCHANGED <<cmd_vars, mon_vars, job_vars, prediction_cache, now, config_vars, pc, thread_locals,
                 stored, cache_size, fp_vars, orch_vars, score_vars, lucy_vars, gw_vars>>

\* line 448, under the lock: the size is read
ReadCacheSize ==
  /\ admin_pc = "status_locked"
  /\ cache_size' = Cardinality(DOMAIN prediction_cache)
  /\ coordination_lock' = Released(Admin)
  /\ admin_pc' = "idle"
  /\ UNCHANGED <<cmd_vars, mon_vars, job_vars, prediction_cache, now, config_vars, pc, thread_locals,
                 stored, fp_vars, orch_vars, score_vars, lucy_vars, gw_vars>>


(***************************************************************************)
(* DrClaude01Orchestrator.coordinated_prediction_request                   *)
(* (src/dr_claude01_orchestrator.py, lines 203-293 and 315-336)            *)
(***************************************************************************)
\* self.services (lines 49-53)
Services == {"dr_lucy", "dream_commander", "victory36_time_presser"}

\* what gather(return_exceptions=True) holds for a task: the exception the
\* task raised, or the JSON body it returned
ServiceException == [exception |-> TRUE, body |-> PyNone]
ServiceResult(b) == [exception |-> FALSE, body |-> b]

\* _call_service (lines 270-293): the body on HTTP 200, else the exception
\* is raised again
CallServiceResult(reply) ==
  IF reply.http = "200" THEN ServiceResult(reply.body) ELSE ServiceException

\* the entry of coordinated_predictions for one service (lines 242-244)
ErrorEntry == [error |-> TRUE, body |-> PyNone]
PredictionEntry(r) ==
  IF r.exception THEN ErrorEntry ELSE [error |-> FALSE, body |-> r.body]

\* lines 239 and 248
ServicesCoordinated(res) == Cardinality({s \in DOMAIN res : ~res[s].exception})

\* lines 234-256; success_rate is kept as the fraction's two terms
OrchestratedResponse(res) ==
  [kind |-> "orchestrated",
   coordination_success |-> TRUE,
   services_coordinated |-> ServicesCoordinated(res),
   coordinated_predictions |-> [s \in DOMAIN res |-> PredictionEntry(res[s])],
   success_rate |-> <<ServicesCoordinated(res), Cardinality(DOMAIN res)>>]

NoEntries == [s \in Services |-> ErrorEntry]
\* lines 263-268: a body with an 'error' key and no supreme_orchestration
OrchestrationFailed ==
  [kind |-> "error", coordination_success |-> FALSE, services_coordinated |-> 0,
   coordinated_predictions |-> NoEntries, success_rate |-> <<0, 0>>]
NoOrchestratedResponse ==
  [kind |-> "none", coordination_success |-> FALSE, services_coordinated |-> 0,
   coordinated_predictions |-> NoEntries, success_rate |-> <<0, 0>>]

NoTasks == [s \in Services |-> "none"]
NoResults == [s \in Services |-> ServiceException]

\* the bodies /orchestrate/predict passes on (line 319): a JSON object, or
\* another truthy JSON value
RequestDatas == {"object", "list"}

\* line 319 and lines 205-227: {**request_data, ...} raises for a body that is no
\* mapping, and the handler of line 261 answers; else the three tasks are
\* created
OrchestratedPrediction ==
  /\ orch_pc = "idle"
  /\ coordination_events < MaxEvents
  /\ \E data \in RequestDatas :
       /\ request_data' = data
       /\ IF data = "object"
          THEN /\ tasks' = [s \in Services |-> "running"]
               /\ orchestrated_response' = NoOrchestratedResponse
               /\ orch_pc' = "gather"
          ELSE /\ tasks' = NoTasks
               /\ orchestrated_response' = OrchestrationFailed
               /\ orch_pc' = "done"
  /\ UNCHANGED <<cmd_vars, mon_vars, job_vars, pipeline_vars, lucy_vars, gw_vars, fp_vars, score_vars, results,
                 coordination_events>>

\* one _call_service task runs to its return or its raise
CallService(replies) ==
  /\ orch_pc = "gather"
  /\ \E s \in Services, reply \in replies :
       /\ tasks[s] = "running"
       /\ tasks' = [tasks EXCEPT ![s] = reply.http]
       /\ results' = [results EXCEPT ![s] = CallServiceResult(reply)]
  /\ UNCHANGED <<cmd_vars, mon_vars, job_vars, pipeline_vars, lucy_vars, gw_vars, fp_vars, score_vars, orch_pc, request_data,
                 orchestrated_response, coordination_events>>

\* lines 230-259: gather returns when the three tasks have ended; the
\* response is compiled and the event counted
CompileResponse ==
  /\ orch_pc = "gather"
  /\ \A s \in Services : tasks[s] # "running"
  /\ orchestrated_response' = OrchestratedResponse(results)
  /\ coordination_events' = coordination_events + 1
  /\ orch_pc' = "done"
  /\ UNCHANGED <<cmd_vars, mon_vars, job_vars, pipeline_vars, lucy_vars, gw_vars, fp_vars, score_vars, request_data, tasks,
                 results>>

\* line 327: the response goes out
OrchestratedPredictionReturn ==
  /\ orch_pc = "done"
  /\ orch_pc' = "idle"
  /\ request_data' = "none"
  /\ tasks' = NoTasks
  /\ results' = NoResults
  /\ orchestrated_response' = NoOrchestratedResponse
  /\ UNCHANGED <<cmd_vars, mon_vars, job_vars, pipeline_vars, lucy_vars, gw_vars, fp_vars, score_vars, coordination_events>>

(***************************************************************************)
(* DrLucyFlightMemory (src/dr_lucy_service_fixed.py).  A Python value is   *)
(* a record with its type in t.  A str carries the keywords the service    *)
(* looks for in it and what json.loads makes of it; a dict carries the     *)
(* three keys predict and extract_scenario_text read.                      *)
(***************************************************************************)
Absent == [t |-> "absent"]
\* json.loads raises JSONDecodeError: the text is not JSON
JSONDecodeError == [t |-> "JSONDecodeError"]
\* json.loads raises another exception: the text nests deeper than the
\* recursion limit
RecursionError == [t |-> "RecursionError"]
\* an int, float, bool, NoneType or list of numbers
Other(type) == [t |-> type]
Text(words, parsed) == [t |-> "str", words |-> words, parsed |-> parsed]
Dict(description, scenario, context) ==
  [t |-> "dict", description |-> description, scenario |-> scenario,
   context |-> context]

\* "", "unknown" and the text of line 71: no keyword, not JSON
EmptyStr == Text({}, JSONDecodeError)
Unknown == Text({}, JSONDecodeError)
ComplexScenario == Text({}, JSONDecodeError)

\* the keywords in str(v)
RECURSIVE WordsIn(_)
WordsIn(v) ==
  IF v.t = "str" THEN v.words
  ELSE IF v.t = "dict"
    THEN WordsIn(v.description) \cup WordsIn(v.scenario) \cup WordsIn(v.context)
  ELSE {}
\* str(v): "5", "5.0" and "[1, 2]" are JSON texts, "None", "True" and the
\* repr of a dict are not
Str(v) ==
  IF v.t = "str" THEN v
  ELSE Text(WordsIn(v),
            IF v.t \in {"int", "float", "list"} THEN v ELSE JSONDecodeError)

\* normalize_input (lines 35-56)
NormalizeInput(data) ==
  IF data.t = "dict" THEN data
  ELSE IF data.t = "str"
    THEN IF data.parsed = JSONDecodeError THEN Dict(Absent, data, Absent)
         ELSE IF data.parsed = RecursionError THEN Dict(Absent, Unknown, Absent)
         ELSE data.parsed
  ELSE Dict(Absent, Str(data), Absent)

\* dict.get(key, default)
Get(d, key, default) == IF d[key] = Absent THEN default ELSE d[key]

\* extract_scenario_text (lines 58-83)
ExtractScenarioText(scenario_input) ==
  IF scenario_input.t = "dict"
    THEN IF scenario_input.description # Absent
           THEN scenario_input.description
         ELSE IF scenario_input.scenario # Absent
           THEN Str(scenario_input.scenario)
         ELSE ComplexScenario
  ELSE IF scenario_input.t = "str" THEN scenario_input
  ELSE Str(scenario_input)

\* lines 92-101: both branches of line 97 extract the same text
ScenarioText(normalized) ==
  ExtractScenarioText(Get(normalized, "scenario", EmptyStr))

\* the exception predict's try block raises, "none" if it runs through:
\* .get on a value that is not a dict (line 92), a slice of a value that
\* has none (line 103), .lower() on a value that is not a str (lines
\* 183-187 and 243)
PredictRaises(normalized) ==
  IF normalized.t # "dict" THEN "AttributeError"
  ELSE IF ScenarioText(normalized).t = "list" THEN "AttributeError"
  ELSE IF ScenarioText(normalized).t # "str" THEN "TypeError"
  ELSE IF Get(normalized, "context", EmptyStr).t # "str" THEN "AttributeError"
  ELSE "none"

When(condition, seq) == IF condition THEN seq ELSE <<>>

\* _generate_memory_references (lines 178-190)
MemoryReferences(scenario, context) ==
  <<"flight_mem">>
    \o When("quantum" \in scenario.words, <<"quantum_computing_memories">>)
    \o When("ai" \in scenario.words \cup context.words, <<"ai_system_experiences">>)
    \o When({"temporal", "time"} \cap scenario.words # {},
            <<"temporal_acceleration_data">>)

\* _generate_outcomes (lines 192-221), the outcome types
Outcomes(scenario) ==
  <<"success">>
    \o When("quantum" \in scenario.words, <<"quantum_optimization">>)
    \o When({"temporal", "time"} \cap scenario.words # {},
            <<"temporal_acceleration">>)

\* _generate_recommendations (lines 223-247); high: some outcome drew a
\* probability above 0.8
Recommendations(scenario, context, high) ==
  <<IF high THEN "proceed_with_high_confidence" ELSE "proceed_with_caution">>
    \o When("quantum" \in scenario.words,
            <<"optimize_error_correction", "maintain_coherence_time">>)
    \o When("temporal" \in scenario.words,
            <<"activate_temporal_compression", "monitor_causality">>)
    \o When("integration" \in context.words,
            <<"validate_integration_points", "plan_phased_deployment">>)

\* lines 125-137 (scenario_complexity, processing time and timestamp left out)
NormalPrediction(scenario, context, high) ==
  [predicted_outcomes |-> Outcomes(scenario),
   confidence_scores |-> "random",
   recommended_actions |-> Recommendations(scenario, context, high),
   memory_references |-> MemoryReferences(scenario, context),
   metadata |-> [model_version |-> "dr_lucy_v1.0_fixed",
                 prediction_method |-> "enhanced_neural_network"]]

\* a body with a top-level error key, as the endpoint's own handler builds
ErrorBody(e) == [error |-> e, status |-> "error"]
\* lines 141-156: the recovery prediction
FallbackPrediction(e) ==
  [predicted_outcomes |-> <<"error_recovery">>,
   confidence_scores |-> "fixed",
   recommended_actions |-> <<"recovered_from_error", "fallback_logic">>,
   memory_references |-> <<"error_recovery_session">>,
   metadata |-> [model_version |-> "dr_lucy_v1.0_fixed",
                 prediction_method |-> "fallback_processing",
                 error_handled |-> e]]

NoPrediction == [t |-> "none"]

\* predict is called (line 275)
LucyPredict(inputs) ==
  /\ lucy_pc = "idle"
  /\ \E data \in inputs : lucy_request_data' = data
  /\ lucy_pc' = "called"
  /\ UNCHANGED <<cmd_vars, mon_vars, job_vars, pipeline_vars, fp_vars, orch_vars, score_vars, gw_vars,
                 normalized_data, prediction>>

\* line 89
LucyNormalize ==
  /\ lucy_pc = "called"
  /\ normalized_data' = NormalizeInput(lucy_request_data)
  /\ lucy_pc' = "normalized"
  /\ UNCHANGED <<cmd_vars, mon_vars, job_vars, pipeline_vars, fp_vars, orch_vars, score_vars, gw_vars,
                 lucy_request_data, prediction>>

\* lines 92-156: the rest of the try block, or the except clause
LucyProcess ==
  /\ lucy_pc = "normalized"
  /\ \E high \in BOOLEAN :
       prediction' =
         IF PredictRaises(normalized_data) # "none"
           THEN FallbackPrediction(PredictRaises(normalized_data))
         ELSE NormalPrediction(ScenarioText(normalized_data),
                               Get(normalized_data, "context", EmptyStr), high)
  /\ lucy_pc' = "returned"
  /\ UNCHANGED <<cmd_vars, mon_vars, job_vars, pipeline_vars, fp_vars, orch_vars, score_vars, gw_vars,
                 lucy_request_data, normalized_data>>

\* the caller takes the prediction (line 290)
LucyReturn ==
  /\ lucy_pc = "returned"
  /\ lucy_pc' = "idle"
  /\ lucy_request_data' = Absent
  /\ normalized_data' = Absent
  /\ prediction' = NoPrediction
  /\ UNCHANGED <<cmd_vars, mon_vars, job_vars, pipeline_vars, fp_vars, orch_vars, score_vars, gw_vars>>

LucyIdle ==
  /\ lucy_pc = "idle"
  /\ lucy_request_data = Absent
  /\ normalized_data = Absent
  /\ prediction = NoPrediction


(***************************************************************************)
(* AntiGravityIntegrationGateway (src/anti_gravity_integration.py): the    *)
(* /predict endpoint runs unified_prediction_request in the thread of each *)
(* request; the metrics dict is shared and no lock guards it.  A           *)
(* d[k] += 1 is a read of d[k] followed by a write.                        *)
(***************************************************************************)
\* a fraction, kept as it is computed
Fraction(num, den) == [num |-> num, den |-> den]

\* lines 44-50
InitialMetrics ==
  [total_predictions |-> 0, successful_integrations |-> 0,
   temporal_accelerations |-> 0, powercraft_engagements |-> 0,
   average_response_time |-> Fraction(0, 1)]

gw_locals == <<gw_request_data, gw_success, gw_loaded, gw_current_avg, gw_count>>

\* unified_predict (lines 369-377): the body is taken and the call begins
UnifiedPredict(t, bodies) ==
  /\ gw_pc[t] = "idle"
  /\ gw_started < MaxCalls
  /\ gw_started' = gw_started + 1
  /\ \E body \in bodies :
       gw_request_data' = [gw_request_data EXCEPT ![t] = body]
  /\ gw_pc' = [gw_pc EXCEPT ![t] = "try"]
  /\ UNCHANGED <<cmd_vars, mon_vars, job_vars, pipeline_vars, fp_vars, orch_vars, score_vars, lucy_vars,
                 integration_metrics, gw_success, gw_loaded, gw_current_avg,
                 gw_count, gw_completed>>

\* lines 61-93 up to the += of line 234: a body that is not a dict makes
\* line 64 raise TypeError, and the handler of line 101 takes over
UnifiedTry(t) ==
  /\ gw_pc[t] = "try"
  /\ IF gw_request_data[t] = "dict"
     THEN /\ gw_pc' = [gw_pc EXCEPT ![t] = "load_engagements"]
          /\ gw_success' = [gw_success EXCEPT ![t] = TRUE]
     ELSE /\ gw_pc' = [gw_pc EXCEPT ![t] = "load_total"]
          /\ gw_success' = [gw_success EXCEPT ![t] = FALSE]
  /\ UNCHANGED <<cmd_vars, mon_vars, job_vars, pipeline_vars, fp_vars, orch_vars, score_vars, lucy_vars,
                 integration_metrics, gw_request_data, gw_loaded,
                 gw_current_avg, gw_count, gw_started, gw_completed>>

\* the read of a += on the metric of this position
Load(t, at, metric, then) ==
  /\ gw_pc[t] = at
  /\ gw_loaded' = [gw_loaded EXCEPT ![t] = integration_metrics[metric]]
  /\ gw_pc' = [gw_pc EXCEPT ![t] = then]
  /\ UNCHANGED <<cmd_vars, mon_vars, job_vars, pipeline_vars, fp_vars, orch_vars, score_vars, lucy_vars,
                 integration_metrics, gw_request_data, gw_success,
                 gw_current_avg, gw_count, gw_started, gw_completed>>

\* the write of a +=: the value read, plus one
Incremented(metric, loaded) == loaded + 1

Store(t, at, metric, then) ==
  /\ gw_pc[t] = at
  /\ integration_metrics' =
       [integration_metrics EXCEPT ![metric] = Incremented(metric, gw_loaded[t])]
  /\ gw_pc' = [gw_pc EXCEPT ![t] = then]
  /\ UNCHANGED <<cmd_vars, mon_vars, job_vars, pipeline_vars, fp_vars, orch_vars, score_vars, lucy_vars,
                 gw_locals, gw_started, gw_completed>>

\* line 234, in apply_antigravity_enhancements
LoadEngagements(t) ==
  Load(t, "load_engagements", "powercraft_engagements", "store_engagements")
StoreEngagements(t) ==
  Store(t, "store_engagements", "powercraft_engagements", "load_total")

\* line 342
LoadTotal(t) == Load(t, "load_total", "total_predictions", "store_total")
StoreTotal(t) ==
  Store(t, "store_total", "total_predictions",
        IF gw_success[t] THEN "load_successful" ELSE "load_average")

\* lines 343-344
LoadSuccessful(t) ==
  Load(t, "load_successful", "successful_integrations", "store_successful")
StoreSuccessful(t) ==
  Store(t, "store_successful", "successful_integrations", "load_average")

\* line 347
LoadAverage(t) ==
  /\ gw_pc[t] = "load_average"
  /\ gw_current_avg' =
       [gw_current_avg EXCEPT ![t] = integration_metrics.average_response_time]
  /\ gw_pc' = [gw_pc EXCEPT ![t] = "load_count"]
  /\ UNCHANGED <<cmd_vars, mon_vars, job_vars, pipeline_vars, fp_vars, orch_vars, score_vars, lucy_vars,
                 integration_metrics, gw_request_data, gw_success, gw_loaded,
                 gw_count, gw_started, gw_completed>>

\* line 348
LoadCount(t) ==
  /\ gw_pc[t] = "load_count"
  /\ gw_count' = [gw_count EXCEPT ![t] = integration_metrics.total_predictions]
  /\ gw_pc' = [gw_pc EXCEPT ![t] = "store_average"]
  /\ UNCHANGED <<cmd_vars, mon_vars, job_vars, pipeline_vars, fp_vars, orch_vars, score_vars, lucy_vars,
                 integration_metrics, gw_request_data, gw_success, gw_loaded,
                 gw_current_avg, gw_started, gw_completed>>

\* (current_avg * (count - 1) + processing_time) / count
RunningAverage(current_avg, count, processing_time) ==
  Fraction(current_avg.num * (count - 1) + processing_time * current_avg.den,
           current_avg.den * count)

\* lines 349-351, and the call returns (line 99 or 106)
StoreAverage(t, processing_times) ==
  /\ gw_pc[t] = "store_average"
  /\ \E processing_time \in processing_times :
       integration_metrics' =
         [integration_metrics EXCEPT !.average_response_time =
            RunningAverage(gw_current_avg[t], gw_count[t], processing_time)]
  /\ gw_pc' = [gw_pc EXCEPT ![t] = "idle"]
  /\ gw_request_data' = [gw_request_data EXCEPT ![t] = "none"]
  /\ gw_success' = [gw_success EXCEPT ![t] = FALSE]
  /\ gw_loaded' = [gw_loaded EXCEPT ![t] = 0]
  /\ gw_current_avg' = [gw_current_avg EXCEPT ![t] = Fraction(0, 1)]
  /\ gw_count' = [gw_count EXCEPT ![t] = 0]
  /\ gw_completed' = gw_completed + 1
  /\ UNCHANGED <<cmd_vars, mon_vars, job_vars, pipeline_vars, fp_vars, orch_vars, score_vars, lucy_vars,
                 gw_started>>

\* the gateway after __init__ (lines 29-55), no request in progress
GatewayIdle ==
  /\ integration_metrics = InitialMetrics
  /\ gw_pc = [t \in Threads |-> "idle"]
  /\ gw_request_data = [t \in Threads |-> "none"]
  /\ gw_success = [t \in Threads |-> FALSE]
  /\ gw_loaded = [t \in Threads |-> 0]
  /\ gw_current_avg = [t \in Threads |-> Fraction(0, 1)]
  /\ gw_count = [t \in Threads |-> 0]
  /\ gw_started = 0
  /\ gw_completed = 0


(***************************************************************************)
(* DrClaude01Orchestrator commands (src/dr_claude01_orchestrator.py):      *)
(* start_orchestration, issue_command called by the /command endpoint in   *)
(* the thread of its request, and the command-processor thread running     *)
(* _command_processing_loop.  A command is the record of its 'type' and    *)
(* of n, its position among the issue_command calls; the other fields of   *)
(* the dict reach no branch.  time.sleep(1) separates two commands of the  *)
(* loop, so the key coord_<second> of an active_operations entry is that   *)
(* of one command, and the dict is the set of the commands it holds.       *)
(***************************************************************************)
CommandTypes ==
  {"agent_coordination", "system_update", "scale_operation", "other"}
Callers == {"__main__", "before_first_request"}
NoCommand == [n |-> 0, type |-> "none"]

\* self.orchestration_active (line 69), never assigned again
orchestration_active == TRUE

\* Thread.start() raises RuntimeError on a thread that was started
StartRaises(thread) == thread = "started"

\* start_orchestration (lines 75-79): __main__ calls it before app.run, the
\* before_first_request hook when the first request arrives
StartOrchestration(caller) ==
  /\ caller \notin start_calls
  /\ caller = "__main__" => start_calls = {}
  /\ start_calls' = start_calls \cup {caller}
  /\ IF StartRaises(health_monitor_thread)
       THEN /\ start_raised' = start_raised \cup {caller}
            /\ UNCHANGED <<health_monitor_thread, command_processor_thread,
                           cmd_pc>>
       ELSE /\ health_monitor_thread' = "started"
            /\ IF StartRaises(command_processor_thread)
                 THEN /\ start_raised' = start_raised \cup {caller}
                      /\ UNCHANGED <<command_processor_thread, cmd_pc>>
                 ELSE /\ command_processor_thread' = "started"
                      /\ cmd_pc' = "while"
                      /\ UNCHANGED start_raised
  /\ UNCHANGED <<mon_vars, job_vars, pipeline_vars, fp_vars, orch_vars, score_vars, lucy_vars,
                 gw_vars, command_queue, commands_issued, active_operations,
                 command, issued, executed>>

\* issue_command (lines 188-201), reached through /command once the hook
\* has run
IssueCommand(command_type) ==
  /\ "before_first_request" \in start_calls
  /\ Len(issued) < MaxCommands
  /\ LET new == [n |-> Len(issued) + 1, type |-> command_type]
     IN /\ command_queue' = Append(command_queue, new)
        /\ issued' = Append(issued, new)
  /\ UNCHANGED <<mon_vars, job_vars, pipeline_vars, fp_vars, orch_vars, score_vars, lucy_vars,
                 gw_vars, commands_issued, active_operations, cmd_pc,
                 command, executed, health_monitor_thread,
                 command_processor_thread, start_calls, start_raised>>

\* while self.orchestration_active: ... if self.command_queue: (lines 93-95)
LoopTest ==
  /\ cmd_pc = "while"
  /\ orchestration_active
  /\ cmd_pc' = IF command_queue # <<>> THEN "pop" ELSE "sleep"
  /\ UNCHANGED <<mon_vars, job_vars, pipeline_vars, fp_vars, orch_vars, score_vars, lucy_vars,
                 gw_vars, command_queue, commands_issued, active_operations,
                 command, issued, executed, health_monitor_thread,
                 command_processor_thread, start_calls, start_raised>>

\* list.pop(): the last item, and the list without it
ListPopLast(list) ==
  [item |-> list[Len(list)], rest |-> SubSeq(list, 1, Len(list) - 1)]

\* list.pop(0): the first item, and the list without it
ListPop0(list) == [item |-> Head(list), rest |-> Tail(list)]

\* command = self.command_queue.pop(0); self._execute_command(command)
\* (lines 96-97): the call is entered
LoopPop ==
  /\ cmd_pc = "pop"
  /\ command' = ListPop0(command_queue).item
  /\ command_queue' = ListPop0(command_queue).rest
  /\ executed' = Append(executed, ListPop0(command_queue).item)
  /\ cmd_pc' = "execute"
  /\ UNCHANGED <<mon_vars, job_vars, pipeline_vars, fp_vars, orch_vars, score_vars, lucy_vars,
                 gw_vars, commands_issued, active_operations, issued,
                 health_monitor_thread, command_processor_thread,
                 start_calls, start_raised>>

\* the method _execute_command calls for a type (lines 163-168)
CommandMethod(command_type) ==
  CASE command_type = "agent_coordination" -> "_coordinate_agents"
    [] command_type = "system_update" -> "_update_system"
    [] command_type = "scale_operation" -> "_scale_operations"
    [] OTHER -> "none"

\* the methods the class defines; looking up another one raises
\* AttributeError
Defined(method) == method \in {"_coordinate_agents"}

\* _execute_command (lines 155-173) with _coordinate_agents (lines
\* 175-186); an exception of the try block is logged at line 173
ExecuteCommand ==
  /\ cmd_pc = "execute"
  /\ LET method == CommandMethod(command.type)
     IN IF method # "none" /\ ~Defined(method)
          THEN UNCHANGED <<commands_issued, active_operations,
                           coordination_events>>
          ELSE /\ IF method = "_coordinate_agents"
                    THEN /\ active_operations' =
                              active_operations \cup {command.n}
                         /\ coordination_events' = coordination_events + 1
                    ELSE UNCHANGED <<active_operations, coordination_events>>
               /\ commands_issued' = commands_issued + 1
  /\ command' = NoCommand
  /\ cmd_pc' = "sleep"
  /\ UNCHANGED <<mon_vars, job_vars, pipeline_vars, fp_vars, score_vars, lucy_vars, gw_vars,
                 orch_pc, request_data, tasks, results,
                 orchestrated_response, command_queue, issued, executed,
                 health_monitor_thread, command_processor_thread,
                 start_calls, start_raised>>

\* time.sleep(1) (line 98), then the loop's next round
LoopSleep ==
  /\ cmd_pc = "sleep"
  /\ cmd_pc' = "while"
  /\ UNCHANGED <<mon_vars, job_vars, pipeline_vars, fp_vars, orch_vars, score_vars, lucy_vars,
                 gw_vars, command_queue, commands_issued, active_operations,
                 command, issued, executed, health_monitor_thread,
                 command_processor_thread, start_calls, start_raised>>

\* one step of the command-processor thread
CommandLoop == LoopTest \/ LoopPop \/ ExecuteCommand \/ LoopSleep

\* the orchestrator after __init__ (lines 56-71)
CommandsIdle ==
  /\ command_queue = <<>>
  /\ commands_issued = 0
  /\ active_operations = {}
  /\ cmd_pc = "idle"
  /\ command = NoCommand
  /\ issued = <<>>
  /\ executed = <<>>
  /\ health_monitor_thread = "initial"
  /\ command_processor_thread = "initial"
  /\ start_calls = {}
  /\ start_raised = {}


(***************************************************************************)
(* Victory36TimePresserMonitor (src/victory36_time_presser_monitor.py):    *)
(* the monitoring thread runs _check_system_health, which rewrites the     *)
(* shared dict system_health entry by entry, while /system-health and      *)
(* /dashboard serialize the same dict in the threads of their requests.    *)
(* No lock guards the dict.  An entry of system_health['services'] is its  *)
(* 'status', "absent" when the dict has no entry for the service.          *)
(***************************************************************************)
ServiceOrder == <<"time_presser", "dr_lucy", "dream_commander">>
ServiceNames == {ServiceOrder[i] : i \in DOMAIN ServiceOrder}
NoServices == [s \in ServiceNames |-> "absent"]

\* self.system_health after __init__ (lines 43-47)
InitialSystemHealth ==
  [overall_status |-> "unknown", last_check |-> "None",
   services |-> NoServices]
\* no request has been answered yet
NoSnapshot ==
  [overall_status |-> "none", last_check |-> "None", services |-> NoServices]

\* Thread.is_alive(): the thread was started and its loop, which never
\* ends (monitoring_active stays True), is running
IsAlive(thread) == thread = "started"

\* start_monitoring (lines 63-67), called by __main__ and by the
\* before_first_request hook
StartMonitoring(caller) ==
  /\ caller \notin start_monitoring_calls
  /\ caller = "__main__" => start_monitoring_calls = {}
  /\ IF ~IsAlive(monitoring_thread)
       THEN /\ monitoring_thread' = "started"
            /\ mon_pc' = "check"
       ELSE UNCHANGED <<monitoring_thread, mon_pc>>
  /\ start_monitoring_calls' = start_monitoring_calls \cup {caller}
  /\ UNCHANGED <<job_vars, pipeline_vars, fp_vars, orch_vars, score_vars, lucy_vars,
                 gw_vars, cmd_vars, system_health, overall_healthy,
                 service_index, observed>>

\* _check_system_health, lines 83-90: the services dict is replaced by an
\* empty one
CheckReset ==
  /\ mon_pc = "check"
  /\ system_health' = [system_health EXCEPT !.services = NoServices]
  /\ overall_healthy' = TRUE
  /\ service_index' = 1
  /\ mon_pc' = "for"
  /\ UNCHANGED <<job_vars, pipeline_vars, fp_vars, orch_vars, score_vars, lucy_vars,
                 gw_vars, cmd_vars, monitoring_thread,
                 start_monitoring_calls, observed>>

\* what requests.get and response.json() make of a service: a 200 with a
\* JSON body, another status code, or an exception
HealthAnswers == {"200", "other", "raises"}

\* the status recorded for an answer (lines 98-103, 119)
ServiceStatus(answer) ==
  CASE answer = "200" -> "healthy"
    [] answer = "other" -> "unhealthy"
    [] OTHER -> "error"

\* one round of the loop of lines 92-124
CheckService(answer) ==
  /\ mon_pc = "for"
  /\ system_health' =
       [system_health EXCEPT
          !.services[ServiceOrder[service_index]] = ServiceStatus(answer)]
  /\ overall_healthy' = (overall_healthy /\ answer = "200")
  /\ service_index' = service_index + 1
  /\ mon_pc' = IF service_index = Len(ServiceOrder) THEN "overall" ELSE "for"
  /\ UNCHANGED <<job_vars, pipeline_vars, fp_vars, orch_vars, score_vars, lucy_vars,
                 gw_vars, cmd_vars, monitoring_thread,
                 start_monitoring_calls, observed>>

\* line 126
CheckOverall ==
  /\ mon_pc = "overall"
  /\ system_health' =
       [system_health EXCEPT
          !.overall_status = IF overall_healthy THEN "healthy"
                             ELSE "degraded"]
  /\ mon_pc' = "last_check"
  /\ UNCHANGED <<job_vars, pipeline_vars, fp_vars, orch_vars, score_vars, lucy_vars,
                 gw_vars, cmd_vars, monitoring_thread,
                 start_monitoring_calls, overall_healthy, service_index,
                 observed>>

\* line 127
CheckLastCheck ==
  /\ mon_pc = "last_check"
  /\ system_health' = [system_health EXCEPT !.last_check = "time"]
  /\ mon_pc' = "sleep"
  /\ UNCHANGED <<job_vars, pipeline_vars, fp_vars, orch_vars, score_vars, lucy_vars,
                 gw_vars, cmd_vars, monitoring_thread,
                 start_monitoring_calls, overall_healthy, service_index,
                 observed>>

\* the rest of a round of _monitoring_loop (lines 71-79): _collect_metrics
\* and _check_alerts leave system_health alone, then the sleep
MonitorSleep ==
  /\ mon_pc = "sleep"
  /\ mon_pc' = "check"
  /\ UNCHANGED <<job_vars, pipeline_vars, fp_vars, orch_vars, score_vars, lucy_vars,
                 gw_vars, cmd_vars, monitoring_thread,
                 start_monitoring_calls, system_health, overall_healthy,
                 service_index, observed>>

\* /system-health (lines 252-255) and the system_health part of /dashboard
\* (line 281), served once the hook has run
ReadSystemHealth ==
  /\ "before_first_request" \in start_monitoring_calls
  /\ observed' = system_health
  /\ UNCHANGED <<job_vars, pipeline_vars, fp_vars, orch_vars, score_vars, lucy_vars,
                 gw_vars, cmd_vars, monitoring_thread,
                 start_monitoring_calls, system_health, mon_pc,
                 overall_healthy, service_index>>

\* the monitor after __init__ (lines 43-59)
MonitorIdle ==
  /\ monitoring_thread = "initial"
  /\ start_monitoring_calls = {}
  /\ system_health = InitialSystemHealth
  /\ mon_pc = "idle"
  /\ overall_healthy = TRUE
  /\ service_index = 1
  /\ observed = NoSnapshot


(***************************************************************************)
(* CloudflareGenAIDeployment batch jobs                                    *)
(* (src/cloudflare_genai_deployment_system.py): batch_deploy creates a     *)
(* DeploymentJob and a task running _execute_batch_deployment on the event *)
(* loop that also serves /api/deploy/status.  The statements between two   *)
(* awaits run without any other coroutine in between.  batch_size is what  *)
(* the JSON body held: an int, or a value range() does not accept.         *)
(***************************************************************************)
DomainNames == {"configured.example", "other.example"}
\* the keys of self.domain_configs
domain_configs == {"configured.example"}

IntValue(v) == [t |-> "int", v |-> v]
NotAnInt == [t |-> "other", v |-> 0]

\* DeploymentJob (lines 104-114) as batch_deploy builds it (lines 780-785)
DeploymentJob(domain_list) ==
  [domains |-> domain_list, status |-> "queued", completed_at |-> "None",
   error_message |-> "None", deployed_count |-> 0, failed_count |-> 0]
\* deployment_jobs holds no job
NoJob ==
  [domains |-> <<>>, status |-> "absent", completed_at |-> "None",
   error_message |-> "None", deployed_count |-> 0, failed_count |-> 0]

\* batch_deploy (lines 775-792), called by /api/deploy/batch with a
\* non-empty list (lines 910-916)
BatchDeploy(domain_list, size) ==
  /\ job = NoJob
  /\ domain_list # <<>>
  /\ job' = DeploymentJob(domain_list)
  /\ batch_size' = size
  /\ job_pc' = "created"
  /\ UNCHANGED <<pipeline_vars, fp_vars, orch_vars, score_vars, lucy_vars,
                 gw_vars, cmd_vars, mon_vars, batch_i, batch_tasks>>

\* lines 797-798
ExecuteBegin ==
  /\ job_pc = "created"
  /\ job' = [job EXCEPT !.status = "processing"]
  /\ job_pc' = "range"
  /\ UNCHANGED <<pipeline_vars, fp_vars, orch_vars, score_vars, lucy_vars,
                 gw_vars, cmd_vars, mon_vars, batch_size, batch_i,
                 batch_tasks>>

\* range(0, n, step) raises TypeError for a step that is no int and
\* ValueError for a step of zero
RangeRaises(step) == step.t # "int" \/ step.v = 0

\* whether i is within range(0, n, step)
InRange(i, n, step) == step.v > 0 /\ i < n

\* the terminal status alone (line 823, line 827), completed_at left as
\* it was
StatusOnly(j, status, error) ==
  [j EXCEPT !.status = status, !.error_message = error]

\* the terminal assignments: lines 823-824, and lines 827-829
Finished(j, status, error) ==
  [j EXCEPT !.status = status, !.completed_at = "time",
            !.error_message = error]

\* line 802, the range is built: an exception leads to lines 826-830
EnterLoop ==
  /\ job_pc = "range"
  /\ IF RangeRaises(batch_size)
       THEN /\ job' = Finished(job, "failed", "str")
            /\ job_pc' = "done"
       ELSE /\ job_pc' = "batch"
            /\ UNCHANGED job
  /\ batch_i' = 0
  /\ UNCHANGED <<pipeline_vars, fp_vars, orch_vars, score_vars, lucy_vars,
                 gw_vars, cmd_vars, mon_vars, batch_size, batch_tasks>>

\* list[i:i + size] for a positive size
Slice(list, i, size) ==
  SubSeq(list, i + 1, IF i + size < Len(list) THEN i + size ELSE Len(list))

IsConfigured(domain) == domain \in domain_configs

\* the next value of i and the tasks of its batch (lines 802-810), or the
\* end of the loop and lines 823-824
BatchTasks ==
  /\ job_pc = "batch"
  /\ IF InRange(batch_i, Len(job.domains), batch_size)
       THEN /\ batch_tasks' =
                 SelectSeq(Slice(job.domains, batch_i, batch_size.v),
                           IsConfigured)
            /\ job_pc' = "gather"
            /\ UNCHANGED job
       ELSE /\ job' = Finished(job, "completed", "None")
            /\ job_pc' = "done"
            /\ UNCHANGED batch_tasks
  /\ UNCHANGED <<pipeline_vars, fp_vars, orch_vars, score_vars, lucy_vars,
                 gw_vars, cmd_vars, mon_vars, batch_size, batch_i>>

\* what gather holds for a task: a dict with a true 'success', or a dict
\* without one or an exception
DeployResults == {"success", "failure"}

Count(batch_results, result) ==
  Cardinality({k \in DOMAIN batch_results : batch_results[k] = result})

\* asyncio.gather returns and the results are counted (lines 812-821)
Gather(batch_results) ==
  /\ job_pc = "gather"
  /\ DOMAIN batch_results = DOMAIN batch_tasks
  /\ job' = [job EXCEPT
               !.deployed_count = @ + Count(batch_results, "success"),
               !.failed_count = @ + Count(batch_results, "failure")]
  /\ batch_i' = batch_i + batch_size.v
  /\ batch_tasks' = <<>>
  /\ job_pc' = "batch"
  /\ UNCHANGED <<pipeline_vars, fp_vars, orch_vars, score_vars, lucy_vars,
                 gw_vars, cmd_vars, mon_vars, batch_size>>

\* every way gather can return for at most MaxDomains tasks
BatchResults ==
  UNION {[1..n -> DeployResults] : n \in 0..MaxDomains}

\* one step of the task of a job
ExecuteBatchDeployment ==
  \/ ExecuteBegin
  \/ EnterLoop
  \/ BatchTasks
  \/ \E batch_results \in BatchResults : Gather(batch_results)

\* the deployment system after __init__, no job yet
JobsIdle ==
  /\ job = NoJob
  /\ batch_size = IntValue(10)
  /\ job_pc = "none"
  /\ batch_i = 0
  /\ batch_tasks = <<>>


(***************************************************************************)
(* Specifications.                                                         *)
(***************************************************************************)
vars ==
  <<pipeline_vars, fp_vars, orch_vars, score_vars, lucy_vars, gw_vars,
    cmd_vars, mon_vars, job_vars>>

\* the controller after __init__ (lines 62-94), no request in progress
PipelineIdle ==
  /\ prediction_cache = EmptyCache
  /\ coordination_lock = Free
  /\ now = 0
  /\ pc = [t \in Threads |-> "idle"]
  /\ request = [t \in Threads |-> NoRequest]
  /\ dr_lucy_call = [t \in Threads |-> "none"]
  /\ dream_commander_call = [t \in Threads |-> "none"]
  /\ elapsed = [t \in Threads |-> 0]
  /\ time_presser_result = [t \in Threads |-> PyNone]
  /\ time_liner_result = [t \in Threads |-> PyNone]
  /\ claude4_call = [t \in Threads |-> "none"]
  /\ claude4_result = [t \in Threads |-> PyNone]
  /\ response = [t \in Threads |-> NoResponse]
  /\ served = [t \in Threads |-> "none"]
  /\ found = [t \in Threads |-> "none"]
  /\ stored = EmptyCache
  /\ admin_pc = "idle"
  /\ cache_size = 0

\* the orchestrator after __init__ (lines 28-73), no request in progress
OrchestratorIdle ==
  /\ orch_pc = "idle"
  /\ request_data = "none"
  /\ tasks = NoTasks
  /\ results = NoResults
  /\ orchestrated_response = NoOrchestratedResponse
  /\ coordination_events = 0

\* no score function has been called
ScoresIdle ==
  /\ sc_time_presser = PyNone
  /\ sc_time_liner = PyNone
  /\ sc_claude4 = PyNone
  /\ sc_score_pc = "idle"
  /\ sc_score = Value(0)
  /\ sc_coherence_pc = "idle"
  /\ sc_coherence = Value(0)

FingerprintIdle ==
  /\ fp_pc = "idle"
  /\ fp_session = ""
  /\ fp_context1 = <<>>
  /\ fp_context2 = <<>>
  /\ fp_hash1 = <<>>
  /\ fp_hash2 = <<>>
  /\ fp_key1 = <<>>
  /\ fp_key2 = <<>>

ContextA1 == <<Item("a", Leaf("1")), Item("b", Nested(<<Item("x", Leaf("1")), Item("y", Leaf("2"))>>))>>
ContextA2 == <<Item("b", Nested(<<Item("y", Leaf("2")), Item("x", Leaf("1"))>>)), Item("a", Leaf("1"))>>

\* Concurrent clients repeating one request; Dr Lucy fails or answers with a
\* prediction, Dream Commander answers with a prediction, Claude 4 answers
\* with an analysis.
ConcurrentRequests == {PredictionRequest("s1", ContextA1, TRUE)}
ConcurrentLucyReplies ==
  {Reply("exception", PyNone), Reply("200", Prediction(8))}
ConcurrentDreamReplies == {Reply("200", Prediction(8))}
ConcurrentAnswers == {Answer("json", Analysis(8))}

\* Concurrent request threads, /cache/clear and /status/pipeline against one
\* controller with both endpoints and the Claude 4 client configured, and
\* backends that answer or fail before their timers count.
Init ==
  /\ PipelineIdle
  /\ LucyIdle
  /\ GatewayIdle
  /\ CommandsIdle
  /\ MonitorIdle
  /\ JobsIdle
  /\ dr_lucy_endpoint = TRUE
  /\ dream_commander_endpoint = TRUE
  /\ claude4_client = TRUE
  /\ FingerprintIdle
  /\ OrchestratorIdle
  /\ ScoresIdle

Next ==
  \/ \E t \in Threads : StartRequest(t, ConcurrentRequests)
  \/ \E t \in Threads : AcquireForLookup(t)
  \/ \E t \in Threads : CacheLookup(t)
  \/ \E t \in Threads : CallDrLucy(t, ConcurrentLucyReplies)
  \/ \E t \in Threads : CallDreamCommander(t, ConcurrentDreamReplies)
  \/ \E t \in Threads : GatherJoin(t)
  \/ \E t \in Threads : Claude4Analysis(t, ConcurrentAnswers)
  \/ \E t \in Threads : Aggregate(t)
  \/ \E t \in Threads : AcquireForStore(t)
  \/ \E t \in Threads : CacheStore(t)
  \/ \E t \in Threads : FinishRequest(t)
  \/ Tick(FALSE)
  \/ AcquireForClear
  \/ ClearCache
  \/ AcquireForStatus
  \/ ReadCacheSize

Spec == Init /\ [][Next]_vars


\* One client issuing requests one after the other, with or without the
\* Claude 4 stage, in two insertion orders of one map, against every
\* configuration of the controller and every kind of answer.
SequentialRequests ==
  {PredictionRequest("s1", c, i) : c \in {ContextA1, ContextA2}, i \in BOOLEAN}
Bodies == {EmptyDict, Prediction(8), Prediction(2), JsonList}
SequentialReplies == RepliesWith(Bodies)
SequentialAnswers == AnswersWith({Analysis(8), AnalysisBadConfidence})

InitRequest ==
  /\ PipelineIdle
  /\ LucyIdle
  /\ GatewayIdle
  /\ CommandsIdle
  /\ MonitorIdle
  /\ JobsIdle
  /\ dr_lucy_endpoint \in BOOLEAN
  /\ dream_commander_endpoint \in BOOLEAN
  /\ claude4_client \in BOOLEAN
  /\ FingerprintIdle
  /\ OrchestratorIdle
  /\ ScoresIdle

NextRequest ==
  \/ StartRequest(1, SequentialRequests)
  \/ AcquireForLookup(1)
  \/ CacheLookup(1)
  \/ CallDrLucy(1, SequentialReplies)
  \/ CallDreamCommander(1, SequentialReplies)
  \/ GatherJoin(1)
  \/ Claude4Analysis(1, SequentialAnswers)
  \/ Aggregate(1)
  \/ AcquireForStore(1)
  \/ CacheStore(1)
  \/ FinishRequest(1)
  \/ Tick(TRUE)
  \/ AcquireForClear
  \/ ClearCache

SpecRequest == InitRequest /\ [][NextRequest]_vars


(***************************************************************************)
(* The fingerprint of two maps (lines 96-103).                             *)
(***************************************************************************)
FingerprintSessions == {"s1", "s2"}

InitFingerprint ==
  /\ PipelineIdle
  /\ LucyIdle
  /\ GatewayIdle
  /\ CommandsIdle
  /\ MonitorIdle
  /\ JobsIdle
  /\ dr_lucy_endpoint = TRUE
  /\ dream_commander_endpoint = TRUE
  /\ claude4_client = TRUE
  /\ OrchestratorIdle
  /\ ScoresIdle
  /\ fp_pc = "built"
  /\ fp_session \in FingerprintSessions
  /\ fp_context1 \in Contexts
  /\ fp_context2 = fp_context1
  /\ fp_hash1 = <<>>
  /\ fp_hash2 = <<>>
  /\ fp_key1 = <<>>
  /\ fp_key2 = <<>>

\* the second map is built again with its items, at any level, inserted in
\* another order
Reinsert ==
  /\ fp_pc = "built"
  /\ \E c \in Contexts :
       /\ c # fp_context2
       /\ SameMap(c, fp_context2)
       /\ fp_context2' = c
  /\ UNCHANGED <<cmd_vars, mon_vars, job_vars, pipeline_vars, lucy_vars, gw_vars, orch_vars, score_vars, fp_pc, fp_session, fp_context1,
                 fp_hash1, fp_hash2, fp_key1, fp_key2>>

\* lines 299-300 on each map
HashContexts ==
  /\ fp_pc = "built"
  /\ fp_hash1' = ContextHash(fp_context1)
  /\ fp_hash2' = ContextHash(fp_context2)
  /\ fp_key1' = CacheKey(fp_session, ContextHash(fp_context1))
  /\ fp_key2' = CacheKey(fp_session, ContextHash(fp_context2))
  /\ fp_pc' = "hashed"
  /\ UNCHANGED <<cmd_vars, mon_vars, job_vars, pipeline_vars, lucy_vars, gw_vars, orch_vars, score_vars, fp_session, fp_context1,
                 fp_context2>>

NextFingerprint == Reinsert \/ HashContexts

SpecFingerprint == InitFingerprint /\ [][NextFingerprint]_vars

(***************************************************************************)
(* /orchestrate/predict requests one after the other, each service         *)
(* raising, answering with another status, or answering 200.               *)
(***************************************************************************)
ServiceReplies == RepliesWith({EmptyDict, Prediction(8)})

InitOrchestrator ==
  /\ PipelineIdle
  /\ LucyIdle
  /\ GatewayIdle
  /\ CommandsIdle
  /\ MonitorIdle
  /\ JobsIdle
  /\ dr_lucy_endpoint = TRUE
  /\ dream_commander_endpoint = TRUE
  /\ claude4_client = TRUE
  /\ FingerprintIdle
  /\ OrchestratorIdle
  /\ ScoresIdle

NextOrchestrator ==
  \/ OrchestratedPrediction
  \/ CallService(ServiceReplies)
  \/ CompileResponse
  \/ OrchestratedPredictionReturn

SpecOrchestrator == InitOrchestrator /\ [][NextOrchestrator]_vars

(***************************************************************************)
(* One client whose requests have distinct keys (distinct session_id),     *)
(* both backends answering; /cache/clear is never called.                  *)
(***************************************************************************)
DistinctKeyRequests ==
  {PredictionRequest(s, ContextA1, FALSE) : s \in {"s1", "s2", "s3"}}
AnsweringReplies == {Reply("200", Prediction(8))}

NextKeys ==
  \/ StartRequest(1, DistinctKeyRequests)
  \/ AcquireForLookup(1)
  \/ CacheLookup(1)
  \/ CallDrLucy(1, AnsweringReplies)
  \/ CallDreamCommander(1, AnsweringReplies)
  \/ GatherJoin(1)
  \/ Claude4Analysis(1, ConcurrentAnswers)
  \/ Aggregate(1)
  \/ AcquireForStore(1)
  \/ CacheStore(1)
  \/ FinishRequest(1)
  \/ Tick(FALSE)

SpecKeys == Init /\ [][NextKeys]_vars

(***************************************************************************)
(* The two score functions (lines 255-289) on given results.               *)
(***************************************************************************)
\* what a backend call can hand to the scores: None, or any JSON body
BackendResults ==
  {PyNone, EmptyDict, PlainDict, JsonList, BadPrediction, BadConfidence,
   Prediction(8), Prediction(2), Prediction(25), Prediction(0 - 5)}
\* what _claude4_analysis can hand to the scores: None, or any JSON value
AnalysisResults ==
  {PyNone, EmptyDict, PlainDict, JsonList, AnalysisBadConfidence,
   Analysis(8), Analysis(10), Analysis(30), Analysis(0 - 50)}

InitScores ==
  /\ PipelineIdle
  /\ LucyIdle
  /\ GatewayIdle
  /\ CommandsIdle
  /\ MonitorIdle
  /\ JobsIdle
  /\ dr_lucy_endpoint = TRUE
  /\ dream_commander_endpoint = TRUE
  /\ claude4_client = TRUE
  /\ FingerprintIdle
  /\ OrchestratorIdle
  /\ sc_time_presser \in BackendResults
  /\ sc_time_liner \in BackendResults
  /\ sc_claude4 \in AnalysisResults
  /\ sc_score_pc = "ready"
  /\ sc_score = Value(0)
  /\ sc_coherence_pc = "ready"
  /\ sc_coherence = Value(0)

\* _calculate_coordination_score returns or raises
CalculateCoordinationScore ==
  /\ sc_score_pc = "ready"
  /\ sc_score' = CoordinationScore(sc_time_presser, sc_time_liner, sc_claude4)
  /\ sc_score_pc' = IF sc_score'.raised THEN "raised" ELSE "returned"
  /\ UNCHANGED <<cmd_vars, mon_vars, job_vars, pipeline_vars, lucy_vars, gw_vars, fp_vars, orch_vars, sc_time_presser,
                 sc_time_liner, sc_claude4, sc_coherence_pc, sc_coherence>>

\* _calculate_temporal_coherence returns or raises
CalculateTemporalCoherence ==
  /\ sc_coherence_pc = "ready"
  /\ sc_coherence' = TemporalCoherence(sc_time_presser, sc_time_liner)
  /\ sc_coherence_pc' = IF sc_coherence'.raised THEN "raised" ELSE "returned"
  /\ UNCHANGED <<cmd_vars, mon_vars, job_vars, pipeline_vars, lucy_vars, gw_vars, fp_vars, orch_vars, sc_time_presser,
                 sc_time_liner, sc_claude4, sc_score_pc, sc_score>>

NextScores == CalculateCoordinationScore \/ CalculateTemporalCoherence

SpecScores == InitScores /\ [][NextScores]_vars

(***************************************************************************)
(* DrLucyFlightMemory.predict on every kind of input.                      *)
(***************************************************************************)
PlainTexts ==
  {Text(w, JSONDecodeError) :
     w \in {{}, {"quantum"}, {"ai"}, {"temporal"}, {"time"}, {"integration"}}}
Others ==
  {Other("int"), Other("float"), Other("bool"), Other("NoneType"), Other("list")}
ScenarioDicts ==
  {Dict(d, s, Absent) :
     d \in {Absent, Text({"quantum"}, JSONDecodeError), Other("int")},
     s \in {Absent, Text({"temporal"}, JSONDecodeError), Other("list")}}
Dicts ==
  {Dict(Absent, s, c) :
     s \in {Absent} \cup PlainTexts \cup Others \cup ScenarioDicts,
     c \in {Absent, Text({"ai"}, JSONDecodeError),
            Text({"integration"}, JSONDecodeError), Other("int")}}
\* texts that are JSON: of a number, a boolean, null, an array, a string,
\* an object, and one nested too deeply to parse
JsonTexts ==
  {Text({}, parsed) :
     parsed \in Others \cup {EmptyStr, RecursionError,
                            Dict(Absent, Text({"quantum"}, JSONDecodeError), Absent),
                            Dict(Absent, Absent, Absent)}}
LucyInputs == Dicts \cup PlainTexts \cup Others \cup JsonTexts

InitLucy ==
  /\ PipelineIdle
  /\ LucyIdle
  /\ GatewayIdle
  /\ CommandsIdle
  /\ MonitorIdle
  /\ JobsIdle
  /\ dr_lucy_endpoint = TRUE
  /\ dream_commander_endpoint = TRUE
  /\ claude4_client = TRUE
  /\ FingerprintIdle
  /\ OrchestratorIdle
  /\ ScoresIdle

NextLucy ==
  \/ LucyPredict(LucyInputs)
  \/ LucyNormalize
  \/ LucyProcess
  \/ LucyReturn

SpecLucy == InitLucy /\ [][NextLucy]_vars


(***************************************************************************)
(* Concurrent requests to the gateway's /predict.                          *)
(***************************************************************************)
\* a JSON object, or a JSON array (request.get_json() of line 372)
GatewayBodies == {"dict", "list"}
\* the processing time measured at line 96 or 103, in whole units
ProcessingTimes == {1}

InitGateway ==
  /\ PipelineIdle
  /\ LucyIdle
  /\ GatewayIdle
  /\ CommandsIdle
  /\ MonitorIdle
  /\ JobsIdle
  /\ dr_lucy_endpoint = TRUE
  /\ dream_commander_endpoint = TRUE
  /\ claude4_client = TRUE
  /\ FingerprintIdle
  /\ OrchestratorIdle
  /\ ScoresIdle

NextGateway ==
  \/ \E t \in Threads : UnifiedPredict(t, GatewayBodies)
  \/ \E t \in Threads : UnifiedTry(t)
  \/ \E t \in Threads : LoadEngagements(t)
  \/ \E t \in Threads : StoreEngagements(t)
  \/ \E t \in Threads : LoadTotal(t)
  \/ \E t \in Threads : StoreTotal(t)
  \/ \E t \in Threads : LoadSuccessful(t)
  \/ \E t \in Threads : StoreSuccessful(t)
  \/ \E t \in Threads : LoadAverage(t)
  \/ \E t \in Threads : LoadCount(t)
  \/ \E t \in Threads : StoreAverage(t, ProcessingTimes)

SpecGateway == InitGateway /\ [][NextGateway]_vars


(***************************************************************************)
(* The orchestrator's commands: start_orchestration from __main__ and the  *)
(* hook, /command requests of every type, the command-processor thread.    *)
(***************************************************************************)
InitCommands ==
  /\ PipelineIdle
  /\ LucyIdle
  /\ GatewayIdle
  /\ CommandsIdle
  /\ MonitorIdle
  /\ JobsIdle
  /\ dr_lucy_endpoint = TRUE
  /\ dream_commander_endpoint = TRUE
  /\ claude4_client = TRUE
  /\ FingerprintIdle
  /\ OrchestratorIdle
  /\ ScoresIdle

NextCommands ==
  \/ \E caller \in Callers : StartOrchestration(caller)
  \/ \E command_type \in CommandTypes : IssueCommand(command_type)
  \/ LoopTest
  \/ LoopPop
  \/ ExecuteCommand
  \/ LoopSleep

SpecCommands == InitCommands /\ [][NextCommands]_vars

\* the interpreter keeps scheduling the started command-processor thread
SpecCommandsLive == SpecCommands /\ WF_vars(CommandLoop)


(***************************************************************************)
(* The monitor: its thread checking the three services round after round, *)
(* each answering 200, another status or not at all, and /system-health    *)
(* requests at any moment.                                                 *)
(***************************************************************************)
InitMonitor ==
  /\ PipelineIdle
  /\ LucyIdle
  /\ GatewayIdle
  /\ CommandsIdle
  /\ MonitorIdle
  /\ JobsIdle
  /\ dr_lucy_endpoint = TRUE
  /\ dream_commander_endpoint = TRUE
  /\ claude4_client = TRUE
  /\ FingerprintIdle
  /\ OrchestratorIdle
  /\ ScoresIdle

NextMonitor ==
  \/ \E caller \in Callers : StartMonitoring(caller)
  \/ CheckReset
  \/ \E answer \in HealthAnswers : CheckService(answer)
  \/ CheckOverall
  \/ CheckLastCheck
  \/ MonitorSleep
  \/ ReadSystemHealth

SpecMonitor == InitMonitor /\ [][NextMonitor]_vars


(***************************************************************************)
(* One batch job: every list of one to MaxDomains domains, every           *)
(* batch_size, every result of a deployment.                               *)
(***************************************************************************)
DomainLists ==
  UNION {[1..n -> DomainNames] : n \in 1..MaxDomains}
BatchSizes == {IntValue(v) : v \in -1..MaxDomains} \cup {NotAnInt}

InitJobs ==
  /\ PipelineIdle
  /\ LucyIdle
  /\ GatewayIdle
  /\ CommandsIdle
  /\ MonitorIdle
  /\ JobsIdle
  /\ dr_lucy_endpoint = TRUE
  /\ dream_commander_endpoint = TRUE
  /\ claude4_client = TRUE
  /\ FingerprintIdle
  /\ OrchestratorIdle
  /\ ScoresIdle

NextJobs ==
  \/ \E domain_list \in DomainLists, size \in BatchSizes :
       BatchDeploy(domain_list, size)
  \/ ExecuteBegin
  \/ EnterLoop
  \/ BatchTasks
  \/ \E batch_results \in BatchResults : Gather(batch_results)

SpecJobs == InitJobs /\ [][NextJobs]_vars

\* the event loop runs the task it was given, and every deployment it
\* awaits returns or raises
SpecJobsLive == SpecJobs /\ WF_vars(ExecuteBatchDeployment)


(***************************************************************************)
(* Properties.                                                             *)
(***************************************************************************)
Failed(call) == call \in {"unconfigured", "exception", "timeout", "non200"}
Terminal(call) == call \in {"unconfigured", "exception", "timeout", "non200", "200"}

\* C1: single-flight.  Requests with the same cache key never run their
\* fan-outs at the same time: while one of them has its backend calls
\* dispatched, no other request with that key is in its own fan-out.
C1_SingleFlight ==
  \A t, u \in Threads :
    (t # u /\ pc[t] = "gather" /\ pc[u] = "gather")
      => KeyOf(request[t]) # KeyOf(request[u])

C3_CacheRoundTrip ==
  [][\A t \in Threads :
       LET key == KeyOf(request[t])
       IN  (/\ pc[t] = "cache_locked"
            /\ pc'[t] # "cache_locked"
            /\ key \in DOMAIN stored
            /\ now - stored[key].cache_time < cache_ttl)
             => /\ pc'[t] = "done"
                /\ served'[t] = "cache"
                /\ response'[t] = stored[key].response]_vars

\* a request has returned the response stored under its key, stored at an
\* earlier time
C3_Witness ==
  \E t \in Threads :
    /\ pc[t] = "done"
    /\ served[t] = "cache"
    /\ KeyOf(request[t]) \in DOMAIN stored
    /\ stored[KeyOf(request[t])].cache_time < now
    /\ response[t] = stored[KeyOf(request[t])].response
    /\ response[t].pipeline_status = "completed"

\* C4: a cache hit is immediate.  A lookup that finds a live entry returns
\* with no backend task created and the Claude 4 stage not entered, leaves
\* prediction_cache as it was and leaves coordination_lock released; a
\* request served from the cache never holds the lock.
C4_CacheHitImmediate ==
  /\ [](\A t \in Threads :
          served[t] = "cache"
            => /\ pc[t] = "done"
               /\ dr_lucy_call[t] = "none"
               /\ dream_commander_call[t] = "none"
               /\ claude4_call[t] = "none"
               /\ coordination_lock # t)
  /\ [][\A t \in Threads :
          LET key == KeyOf(request[t])
          IN  (/\ pc[t] = "cache_locked"
               /\ pc'[t] # "cache_locked"
               /\ key \in DOMAIN prediction_cache
               /\ now - prediction_cache[key].cache_time < cache_ttl)
                => /\ pc'[t] = "done"
                   /\ served'[t] = "cache"
                   /\ dr_lucy_call'[t] = "none"
                   /\ dream_commander_call'[t] = "none"
                   /\ claude4_call'[t] = "none"
                   /\ prediction_cache' = prediction_cache
                   /\ coordination_lock' = Free]_vars

\* a request was served from the cache while another request is in its
\* fan-out
C4_Witness ==
  \E t, u \in Threads :
    /\ served[t] = "cache"
    /\ pc[t] = "done"
    /\ KeyOf(request[t]) \in DOMAIN prediction_cache
    /\ response[t] = prediction_cache[KeyOf(request[t])].response
    /\ pc[u] = "gather"

\* C5: fingerprint stability.  Two maps with the same keys and values at
\* every level, whatever the insertion orders, get the same context hash
\* and, with the same session_id, the same cache key.
C5_FingerprintStability ==
  (fp_pc = "hashed" /\ SameMap(fp_context1, fp_context2))
    => (fp_hash1 = fp_hash2 /\ fp_key1 = fp_key2)

\* two maps that differ in insertion order at the top level and in a nested
\* map have been hashed
C5_Witness ==
  /\ fp_pc = "hashed"
  /\ Len(fp_context1) = 2
  /\ fp_context1[1].key = fp_context2[2].key
  /\ \E i, j \in 1..2 :
       /\ ~fp_context1[i].value.leaf
       /\ fp_context2[j].key = fp_context1[i].key
       /\ fp_context2[j].value.items # fp_context1[i].value.items
  /\ fp_key1 = fp_key2

\* a request that went through its own fan-out has returned (line 362 or
\* line 366)
Resolved(t) == pc[t] = "done" /\ served[t] \in {"computed", "except"}

\* C6: result completeness.  Aggregation starts only after both backend
\* calls are terminal, and the response of every request that ran a fan-out
\* carries each backend's outcome: the payload the call returned, or None for
\* a call that failed.
C6_ResultCompleteness ==
  \A t \in Threads :
    /\ pc[t] \in {"secondary", "aggregate", "store", "store_locked"}
         => Terminal(dr_lucy_call[t]) /\ Terminal(dream_commander_call[t])
    /\ Resolved(t)
         => /\ Terminal(dr_lucy_call[t]) /\ Terminal(dream_commander_call[t])
            /\ response[t].time_presser_prediction = time_presser_result[t]
            /\ response[t].time_liner_prediction = time_liner_result[t]

\* C7: fail-none join.  When one backend call of a fan-out fails or raises,
\* the other call still runs to its end and the response carries its result,
\* with None recorded for the failed one; the failure is not turned into a
\* request-level error.
C7_FailNoneJoin ==
  \A t \in Threads :
    (Resolved(t) /\ Failed(dr_lucy_call[t]) /\ dream_commander_call[t] = "200")
      => /\ served[t] = "computed"
         /\ response[t].time_presser_prediction = PyNone
         /\ response[t].time_liner_prediction = time_liner_result[t]

\* C8: partial-failure tolerance.  A request in whose fan-out at least one
\* backend answered HTTP 200 with a JSON body returns pipeline_status
\* 'completed'.
C8_PartialFailureTolerance ==
  \A t \in Threads :
    (Resolved(t) /\ (dr_lucy_call[t] = "200" \/ dream_commander_call[t] = "200"))
      => response[t].pipeline_status = "completed"

\* C9: total-failure fatal path.  A request returns pipeline_status 'failed'
\* exactly when it found no live entry and both of its backend calls failed.
C9_TotalFailureFatal ==
  \A t \in Threads :
    pc[t] = "done"
      => (response[t].pipeline_status = "failed"
            <=> /\ served[t] # "cache"
                /\ Failed(dr_lucy_call[t])
                /\ Failed(dream_commander_call[t]))

\* C10: when the three service calls of an orchestrated request all fail,
\* the request resolves to a failure outcome: its response does not report
\* coordination_success.
C10_AllServicesFail ==
  (orch_pc = "done" /\ \A s \in Services : Failed(tasks[s]))
    => ~(orchestrated_response.kind = "orchestrated"
         /\ orchestrated_response.coordination_success)

\* a backend succeeded: its call handed a JSON body, not None, to the scores
Succeeded(result) == result # PyNone
Indicator(result) == IF Succeeded(result) THEN 1 ELSE 0

\* C11: the coordination score is the weighted fraction of the backends that
\* succeeded, with weights that sum to 1 (100 hundredths): 1.0 when both
\* succeed, 0.0 when none does, whatever the secondary analysis returned.
C11_WeightedFraction ==
  sc_score_pc = "returned"
    => \E w \in 0..100 :
         sc_score.value = w * Indicator(sc_time_presser)
                          + (100 - w) * Indicator(sc_time_liner)

\* C12: whatever the backends' outcomes and the secondary analysis (any
\* 'confidence' included), the coordination score returned lies in [0,1].
C12_ScoreRange ==
  sc_score_pc = "returned" => (0 <= sc_score.value /\ sc_score.value <= 100)

\* the result carries a numeric prediction confidence
SuppliesConfidence(result) ==
  Truthy(result) /\ result.t = "dict" /\ result.pred = "dict" /\ result.ckind = "num"

\* C13: coherence bounds.  The coherence score returned lies in [0,1], and
\* two successful backends reporting the same confidence yield exactly 1.0.
C13_CoherenceBounds ==
  sc_coherence_pc = "returned"
    => /\ 0 <= sc_coherence.value
       /\ sc_coherence.value <= 100
       /\ (/\ SuppliesConfidence(sc_time_presser)
           /\ SuppliesConfidence(sc_time_liner)
           /\ sc_time_presser.conf = sc_time_liner.conf)
            => sc_coherence.value = 100

\* the coherence of two confidences more than 1.0 apart has been returned,
\* clamped to 0
C13_Witness ==
  /\ sc_coherence_pc = "returned"
  /\ SuppliesConfidence(sc_time_presser)
  /\ SuppliesConfidence(sc_time_liner)
  /\ Abs(sc_time_presser.conf - sc_time_liner.conf) > 10
  /\ sc_coherence.value = 0

\* C14: the coherence score is the neutral 0.5 whenever fewer than two
\* successful backends supplied a confidence value (a backend failed, or a
\* successful response carries no confidence).
C14_NeutralDefault ==
  (/\ sc_coherence_pc = "returned"
   /\ ~(SuppliesConfidence(sc_time_presser) /\ SuppliesConfidence(sc_time_liner)))
    => sc_coherence.value = 50

\* C15: _claude4_analysis is invoked only for a request that asks for it
\* and in whose fan-out at least one backend succeeded.
C15_SecondaryOnlyOnSuccess ==
  \A t \in Threads :
    claude4_call[t] \in {"api", "awaited"}
      => /\ request[t].claude4_integration
         /\ (dr_lucy_call[t] = "200" \/ dream_commander_call[t] = "200")

\* C16: whatever _claude4_analysis returns, the request returns the
\* backends' predictions with the pipeline_status it would have had with no
\* secondary analysis.
C16_SecondaryNeverFails ==
  \A t \in Threads :
    LET without == ComposeResponse(request[t], time_presser_result[t],
                                   time_liner_result[t], PyNone)
    IN  (Resolved(t) /\ ~without.raised)
          => /\ response[t].time_presser_prediction = time_presser_result[t]
             /\ response[t].time_liner_prediction = time_liner_result[t]
             /\ response[t].pipeline_status = without.value.pipeline_status

\* C17: every successfully composed response ('completed') carries a
\* degradation marker: true when a backend of its fan-out did not succeed,
\* false when both succeeded.
C17_DegradedMarker ==
  \A t \in Threads :
    (/\ pc[t] = "done"
     /\ served[t] = "computed"
     /\ response[t].pipeline_status = "completed")
      => /\ "degraded" \in DOMAIN response[t]
         /\ response[t].degraded
              = ~(dr_lucy_call[t] = "200" /\ dream_commander_call[t] = "200")

\* C18: prediction_cache never holds a response whose pipeline_status is
\* 'failed' or 'error'; a lookup therefore never returns one.
C18_OnlySuccessCached ==
  /\ \A key \in DOMAIN prediction_cache :
       prediction_cache[key].response.pipeline_status \notin {"failed", "error"}
  /\ \A t \in Threads :
       served[t] = "cache"
         => response[t].pipeline_status \notin {"failed", "error"}

\* C19: the cache is bounded because entries whose ttl has elapsed are
\* reclaimed, with no explicit clear: when a request stores its response,
\* the cache it leaves holds live entries only, so that its size never
\* exceeds the number of keys stored within one ttl.
C19_CacheBounded ==
  [][\A t \in Threads :
       (pc[t] = "store_locked" /\ pc'[t] = "done")
         => \A key \in DOMAIN prediction_cache' :
              now - prediction_cache'[key].cache_time < cache_ttl]_vars

\* C20: explicit cache clear.  When clear_cache completes, prediction_cache
\* is empty and the count it reports is the number of entries removed, also
\* with requests waiting to store; and a later lookup of a key under which
\* nothing has been stored since the clear is a miss.
C20_CacheClear ==
  /\ [][(admin_pc = "clear_locked" /\ admin_pc' = "idle")
          => /\ DOMAIN prediction_cache' = {}
             /\ cache_size' = Cardinality(DOMAIN prediction_cache)
                              - Cardinality(DOMAIN prediction_cache')]_vars
  /\ [][\A t \in Threads :
          (/\ pc[t] = "cache_locked"
           /\ pc'[t] # "cache_locked"
           /\ KeyOf(request[t]) \notin DOMAIN stored)
            => (pc'[t] = "gather" /\ served'[t] # "cache")]_vars

\* clear_cache has removed an entry and the cache is still empty, while a
\* request that has composed its response waits to store it and another
\* request has missed
C20_Witness ==
  /\ admin_pc = "idle"
  /\ cache_size >= 1
  /\ DOMAIN prediction_cache = {}
  /\ \E t, u \in Threads :
       /\ pc[t] = "store"
       /\ pc[u] = "gather"
       /\ found[u] = "absent"

C22_MaxConcurrent ==
  Cardinality({t \in Threads : FanOutRunning(t)}) <= max_concurrent

\* C23: request normalization always yields a map.  Whatever predict is
\* called with, normalize_input returns a dict, and an input that is
\* neither a dict nor a JSON text comes back wrapped as the single entry
\* "scenario" holding its string representation.
C23_NormalizeYieldsMap ==
  lucy_pc \in {"normalized", "returned"}
    => /\ normalized_data.t = "dict"
       /\ (\/ lucy_request_data.t \notin {"dict", "str"}
           \/ /\ lucy_request_data.t = "str"
              /\ lucy_request_data.parsed = JSONDecodeError)
            => normalized_data = Dict(Absent, Str(lucy_request_data), Absent)

\* C27: predict always returns a complete prediction.  Whatever it is
\* called with, the value predict returns has the five fields
\* predicted_outcomes, confidence_scores, recommended_actions,
\* memory_references and metadata and no field error, and it is the
\* recovery prediction exactly when normalization or processing raised.
C27_CompletePrediction ==
  lucy_pc = "returned"
    => /\ {"predicted_outcomes", "confidence_scores", "recommended_actions",
           "memory_references", "metadata"} \subseteq DOMAIN prediction
       /\ "error" \notin DOMAIN prediction
       /\ (prediction.metadata.prediction_method = "fallback_processing")
            <=> (PredictRaises(normalized_data) # "none")
       /\ (PredictRaises(normalized_data) # "none")
            => prediction = FallbackPrediction(PredictRaises(normalized_data))

\* predict was called with the text of a JSON array: normalize_input
\* returned a list, .get raised, and the recovery prediction came back
C27_Witness ==
  /\ lucy_pc = "returned"
  /\ lucy_request_data.t = "str"
  /\ normalized_data.t = "list"
  /\ prediction.metadata.prediction_method = "fallback_processing"
  /\ prediction.predicted_outcomes = <<"error_recovery">>

\* C24: coordinate_predictions never raises.  Every call ends at one of
\* its three return statements with a PipelineResponse whose pipeline_status
\* is 'completed', 'failed' or 'error', never the default 'processing'; a
\* call that failed with an exception returns the status 'error', one whose
\* backends both gave nothing returns 'failed'.
C24_NeverRaises ==
  \A t \in Threads :
    pc[t] = "done"
      => /\ served[t] \in {"cache", "computed", "except"}
         /\ response[t].pipeline_status \in {"completed", "failed", "error"}
         /\ served[t] = "except" => response[t].pipeline_status = "error"
         /\ (/\ served[t] = "computed"
             /\ ~Truthy(time_presser_result[t])
             /\ ~Truthy(time_liner_result[t]))
              => response[t].pipeline_status = "failed"

\* a request ended in the handler of line 364 and returned the 'error'
\* response
C24_Witness ==
  \E t \in Threads :
    /\ pc[t] = "done"
    /\ served[t] = "except"
    /\ response[t].pipeline_status = "error"
    /\ response[t].session_id = request[t].session_id

\* C25: stage ordering.  In a call that misses the cache the scores are
\* aggregated before the secondary analysis runs: at the step that computes
\* the coordination score and the temporal coherence of the call,
\* _claude4_analysis has not yet been awaited.
C25_StageOrder ==
  [][\A t \in Threads :
       (pc[t] = "aggregate" /\ pc'[t] # "aggregate")
         => claude4_call[t] \notin {"api", "awaited"}]_vars

\* C26: the lock is held only around the cache operations.  A request
\* thread holds coordination_lock exactly while it is inside the lookup or
\* the store block, and the endpoints exactly while they read the size or
\* clear the cache: never while a backend call, the Claude 4 call or the
\* score computation of that thread is in progress, so that a request whose
\* backends are still running leaves the lock free for another request's
\* lookup.
C26_LockScope ==
  /\ \A t \in Threads :
       coordination_lock = t <=> pc[t] \in {"cache_locked", "store_locked"}
  /\ coordination_lock = Admin <=> admin_pc \in {"clear_locked", "status_locked"}
  /\ \A t \in Threads :
       pc[t] \in {"gather", "secondary", "aggregate"} => coordination_lock # t

\* one request does its cache lookup, holding the lock, while the backend
\* calls of another are still running
C26_Witness ==
  \E t, u \in Threads :
    /\ t # u
    /\ FanOutRunning(t)
    /\ pc[u] = "cache_locked"
    /\ coordination_lock = u

\* C28: no Claude 4 analysis without claude4_integration.  The response
\* returned to a request with claude4_integration = False has
\* claude4_analysis = None, whether it was computed or came from the cache.
C28_NoAnalysisUnlessAsked ==
  \A t \in Threads :
    (pc[t] = "done" /\ ~request[t].claude4_integration)
      => response[t].claude4_analysis = PyNone

\* C29: the exception path leaves the cache alone.  The only step of a
\* call that changes prediction_cache is the store of line 357, and the
\* call that takes it returns a composed response; a call that ends in
\* the handler of line 364, with pipeline_status 'error', never reaches the
\* store, so that none of its steps adds, replaces or removes an entry.
C29_ErrorLeavesCache ==
  /\ [](\A t \in Threads :
          pc[t] \in {"store", "store_locked"}
            => /\ served[t] # "except"
               /\ response[t].pipeline_status # "error")
  /\ [][\A t \in Threads :
          (/\ pc'[t] # pc[t]
           /\ prediction_cache' # prediction_cache)
            => /\ pc[t] = "store_locked"
               /\ served'[t] = "computed"
               /\ response'[t].pipeline_status # "error"]_vars
  /\ [][\A t \in Threads :
          (served'[t] = "except" /\ served[t] # "except")
            => prediction_cache' = prediction_cache]_vars

\* a call found an expired entry under its key, ran its fan-out and ended
\* in the handler: the entry is still the one stored before
C29_Witness ==
  \E t \in Threads :
    /\ pc[t] = "done"
    /\ served[t] = "except"
    /\ response[t].pipeline_status = "error"
    /\ KeyOf(request[t]) \in DOMAIN prediction_cache
    /\ prediction_cache = stored

\* C30: the gateway's metrics stay consistent under concurrent requests.
\* successful_integrations never exceeds total_predictions, and when no
\* call is in progress total_predictions is the number of calls of
\* unified_prediction_request that have returned.
C30_MetricsConsistent ==
  /\ integration_metrics.successful_integrations
       <= integration_metrics.total_predictions
  /\ (\A t \in Threads : gw_pc[t] = "idle")
       => integration_metrics.total_predictions = gw_completed

\* C31: while the command-processor loop runs, the commands passed to
\* _execute_command followed by those still in command_queue are the
\* commands in the order issue_command appended them (none lost, none
\* passed twice, order kept), and every issued command is eventually
\* passed to _execute_command.
C31_QueueDelivery ==
  /\ [](issued = executed \o command_queue)
  /\ \A n \in 1..MaxCommands :
       (cmd_pc # "idle" /\ Len(issued) >= n) ~> (Len(executed) >= n)

\* a command was appended while the loop was inside _execute_command with
\* an earlier one, after a first one had been executed
C31_Witness ==
  /\ cmd_pc = "execute"
  /\ Len(executed) = 2
  /\ Len(command_queue) = 1
  /\ issued = executed \o command_queue

\* C32: commands_issued never exceeds the number of issue_command calls,
\* and equals it once the queue has drained (the queue is empty and the
\* loop is outside _execute_command), whatever the types of the commands.
C32_CommandsCounted ==
  /\ commands_issued <= Len(issued)
  /\ (command_queue = <<>> /\ cmd_pc # "execute")
       => commands_issued = Len(issued)

\* C33: no call of start_orchestration raises, and each of the two threads
\* is started exactly once when the method has been called.
C33_StartIsIdempotent ==
  /\ start_raised = {}
  /\ start_calls # {} =>
       /\ health_monitor_thread = "started"
       /\ command_processor_thread = "started"

\* C34: whatever a /system-health or /dashboard request serializes, also
\* while _check_system_health is running, an overall_status of 'healthy'
\* comes with an entry of status 'healthy' for each of the three services.
C34_HealthyMeansAllHealthy ==
  observed.overall_status = "healthy" =>
    \A s \in ServiceNames : observed.services[s] = "healthy"

\* C35: a job whose status is 'completed' has counted every domain of its
\* list: deployed_count + failed_count is the length of the list.
C35_EveryDomainCounted ==
  job.status = "completed" =>
    job.deployed_count + job.failed_count = Len(job.domains)

\* C36: the status of a job only moves queued -> processing -> completed
\* or failed and never leaves completed or failed; completed_at is set in
\* exactly the states whose status is completed or failed; and every job
\* batch_deploy created eventually reaches completed or failed.
C36_JobLifecycle ==
  /\ [][job'.status # job.status =>
          <<job.status, job'.status>> \in
            {<<"absent", "queued">>, <<"queued", "processing">>,
             <<"processing", "completed">>, <<"processing", "failed">>}]_vars
  /\ [](job.completed_at # "None" <=> job.status \in {"completed", "failed"})
  /\ (job.status = "queued") ~> (job.status \in {"completed", "failed"})

\* a job of several batches that completed with deployments of both
\* results counted
C36_Witness ==
  /\ job.status = "completed"
  /\ job.completed_at = "time"
  /\ job.deployed_count >= 1
  /\ job.failed_count >= 1
  /\ batch_size.v < Len(job.domains)

=============================================================================
